---- MODULE Spec2Model ----
(***************************************************************************)
(* A model of the mock-interview practice client: the ATS resume scoring   *)
(* of the ResumeScore page, the chat window's question progression, the    *)
(* router and the pages' navigation, the resume upload page and the API    *)
(* client's session bookkeeping.                                           *)
(***************************************************************************)
EXTENDS Integers, Sequences, FiniteSets, TLC

(***************************************************************************)
(* JavaScript strings.  A text is a TLA+ string; a character is a string   *)
(* of length one.                                                          *)
(***************************************************************************)
CharAt(s, i) == SubSeq(s, i, i)

CharsOf(s) == {CharAt(s, i) : i \in 1..Len(s)}

UpperAlphabet == "ABCDEFGHIJKLMNOPQRSTUVWXYZ"

LowerAlphabet == "abcdefghijklmnopqrstuvwxyz"

UpperLetters == CharsOf(UpperAlphabet)

LowerLetters == CharsOf(LowerAlphabet)

Letters == UpperLetters \cup LowerLetters

\* \d
Digits == CharsOf("0123456789")

\* \w
WordChars == Letters \cup Digits \cup {"_"}

\* \s (the white space the model's texts are written with)
SpaceChars == {" ", "\n", "\t", "\r"}

LowerOf == [c \in UpperLetters |->
              CharAt(LowerAlphabet, CHOOSE i \in 1..26 : CharAt(UpperAlphabet, i) = c)]

ToLowerChar(c) == IF c \in UpperLetters THEN LowerOf[c] ELSE c

\* String.prototype.toLowerCase
RECURSIVE toLowerCase(_)
toLowerCase(s) ==
  IF Len(s) = 0 THEN ""
  ELSE IF Len(s) = 1 THEN ToLowerChar(s)
  ELSE LET h == Len(s) \div 2
       IN  toLowerCase(SubSeq(s, 1, h)) \o toLowerCase(SubSeq(s, h + 1, Len(s)))

\* String.prototype.includes
includes(s, kw) == \E i \in 1..(Len(s) - Len(kw) + 1) : SubSeq(s, i, i + Len(kw) - 1) = kw

\* kw occurs in s starting at position p
LitAt(s, p, kw) == p >= 1 /\ p + Len(kw) - 1 <= Len(s) /\ SubSeq(s, p, p + Len(kw) - 1) = kw

IsWordAt(s, p) == p >= 1 /\ p <= Len(s) /\ CharAt(s, p) \in WordChars

\* \b between positions p-1 and p
WordBoundary(s, p) == IsWordAt(s, p - 1) # IsWordAt(s, p)

\* s[from..to] lies within s and every character of it is in class
AllIn(s, from, to, class) ==
  from >= 1 /\ to <= Len(s) /\ \A j \in from..to : CharAt(s, j) \in class

\* the positions reached from a position of P by \s*
AfterSpaces(s, P) ==
  {q \in 1..(Len(s) + 1) : \E p \in P : p <= q /\ AllIn(s, p, q - 1, SpaceChars)}

\* the positions reached from a position of P by the literal kw
AfterLit(s, P, kw) == {p + Len(kw) : p \in {p \in P : LitAt(s, p, kw)}}

\* the positions reached from a position of P by one of the literals kws
AfterAnyLit(s, P, kws) == UNION {AfterLit(s, P, kw) : kw \in kws}

\* Math.min
MathMin(a, b) == IF a <= b THEN a ELSE b

(***************************************************************************)
(* ResumeScore: the ATS scoring algorithm.  Scores are counted in half     *)
(* points, the unit of the action-verb score (0.5 a verb): Pt is one       *)
(* point.  The feedback messages are display text and are left out of the  *)
(* breakdown records.                                                      *)
(***************************************************************************)
Pt == 2

maxScore == 100 * Pt

\* slip: Math.round left out
MathRoundUnrounded(h) == h

\* Math.round of a non-negative number of half points: to the nearest whole
\* point, a half rounding up
MathRound(h) == ((h + 1) \div 2) * Pt

technicalSkills ==
  {"javascript", "python", "java", "react", "node", "html", "css", "sql", "aws",
   "docker", "git", "mongodb", "postgresql", "typescript", "angular", "vue",
   "django", "flask", "spring", "microservices"}

softSkills ==
  {"communication", "leadership", "teamwork", "problem solving", "critical thinking",
   "creativity", "adaptability", "time management", "collaboration",
   "project management"}

experienceKeywords ==
  {"experience", "work", "job", "career", "employment", "position", "role",
   "company", "organization"}

educationKeywords ==
  {"education", "university", "college", "degree", "bachelor", "master", "phd",
   "diploma", "certification"}

degreeNames ==
  {"bachelor", "master", "phd", "b.s.", "m.s.", "b.tech", "m.tech", "b.eng", "m.eng"}

actionVerbs ==
  {"managed", "developed", "implemented", "created", "led", "designed", "built",
   "achieved", "improved", "increased", "reduced", "optimized", "launched",
   "coordinated", "trained", "mentored", "analyzed", "researched", "presented",
   "negotiated"}

\* The bullet characters of /[...]/ are outside the character set a module
\* can write; "~" stands for them in the model's texts.
bulletChars == {"~"}

\* text.split(/\s+/).filter(word => word.length > 0).length: the number of
\* maximal runs of non-space characters
wordCount(text) ==
  Cardinality({i \in 1..Len(text) :
                 /\ CharAt(text, i) \notin SpaceChars
                 /\ (i = 1 \/ CharAt(text, i - 1) \in SpaceChars)})

\* slip: the 300-word branch adds the 200-word branch's points
lengthPointsCopied(words) ==
  IF words >= 300 THEN 10 * Pt ELSE IF words >= 200 THEN 10 * Pt ELSE 5 * Pt

\* slip: a short resume earns the middle score
lengthPointsShortAsMiddle(words) ==
  IF words >= 300 THEN 15 * Pt ELSE IF words >= 200 THEN 10 * Pt ELSE 10 * Pt

lengthPoints(words) ==
  IF words >= 300 THEN 15 * Pt ELSE IF words >= 200 THEN 10 * Pt ELSE 5 * Pt

lengthFeedback(words) ==
  IF words >= 300 THEN [score |-> 15 * Pt, max |-> 15 * Pt]
  ELSE IF words >= 200 THEN [score |-> 10 * Pt, max |-> 15 * Pt]
  ELSE [score |-> 5 * Pt, max |-> 15 * Pt]

emailLocalChars == Letters \cup Digits \cup {".", "_", "%", "+", "-"}

emailDomainChars == Letters \cup Digits \cup {".", "-"}

emailTldChars == Letters \cup {"|"}

\* /\b[A-Za-z0-9._%+-]+@[A-Za-z0-9.-]+\.[A-Z|a-z]{2,}\b/.test(text)
hasEmail(text) ==
  \E a \in 1..Len(text) :
    /\ CharAt(text, a) = "@"
    /\ \E k \in 1..(a - 1) :
         WordBoundary(text, k) /\ AllIn(text, k, a - 1, emailLocalChars)
    /\ \E d \in (a + 2)..Len(text) :
         /\ CharAt(text, d) = "."
         /\ AllIn(text, a + 1, d - 1, emailDomainChars)
         /\ \E e \in (d + 2)..Len(text) :
              AllIn(text, d + 1, e, emailTldChars) /\ WordBoundary(text, e + 1)

\* /\b\d{10,}\b/.test(text) || /\(\d{3}\)\s*\d{3}-\d{4}/.test(text)
hasPhone(text) ==
  \/ \E i \in 1..Len(text) :
       /\ CharAt(text, i) \in Digits
       /\ WordBoundary(text, i)
       /\ \E j \in (i + 9)..Len(text) :
            AllIn(text, i, j, Digits) /\ WordBoundary(text, j + 1)
  \/ \E i \in 1..Len(text) :
       /\ CharAt(text, i) = "("
       /\ AllIn(text, i + 1, i + 3, Digits)
       /\ LitAt(text, i + 4, ")")
       /\ \E q \in AfterSpaces(text, {i + 5}) :
            /\ AllIn(text, q, q + 2, Digits)
            /\ LitAt(text, q + 3, "-")
            /\ AllIn(text, q + 4, q + 7, Digits)

\* /linkedin\.com|linkedin/.test(text.toLowerCase())
hasLinkedIn(text) ==
  LET lower == toLowerCase(text)
  IN  includes(lower, "linkedin.com") \/ includes(lower, "linkedin")

contactScore(text) ==
    (IF hasEmail(text) THEN 4 * Pt ELSE 0)
  + (IF hasPhone(text) THEN 4 * Pt ELSE 0)
  + (IF hasLinkedIn(text) THEN 2 * Pt ELSE 0)

\* keywords.filter(k => text.toLowerCase().includes(k)).length
foundCount(text, keywords) ==
  LET lower == toLowerCase(text)
  IN  Cardinality({k \in keywords : includes(lower, k)})

\* slip: Math.min(..., 20) left out
skillsScoreUncapped(text) ==
  foundCount(text, technicalSkills) * 2 * Pt + foundCount(text, softSkills) * 1 * Pt

\* slip: the technical skills are left out of the count
skillsScoreSoftOnly(text) ==
  MathMin(foundCount(text, softSkills) * 1 * Pt, 20 * Pt)

\* min(technicalCount * 2 + softCount * 1, 20)
skillsScore(text) ==
  MathMin(foundCount(text, technicalSkills) * 2 * Pt
            + foundCount(text, softSkills) * 1 * Pt, 20 * Pt)

\* keywords.some(k => text.toLowerCase().includes(k))
someKeyword(text, keywords) ==
  LET lower == toLowerCase(text)
  IN  \E k \in keywords : includes(lower, k)

\* /\d+\s*(?:years?|yrs?)\s*(?:of\s*)?(?:experience|work)/i.test(text)
hasYears(text) ==
  LET lower      == toLowerCase(text)
      afterDigit == {i + 1 : i \in {i \in 1..Len(lower) : CharAt(lower, i) \in Digits}}
      afterUnit  == AfterAnyLit(lower, AfterSpaces(lower, afterDigit),
                                {"year", "years", "yr", "yrs"})
      beforeOf   == AfterSpaces(lower, afterUnit)
      afterOf    == beforeOf \cup AfterSpaces(lower, AfterLit(lower, beforeOf, "of"))
  IN  AfterAnyLit(lower, afterOf, {"experience", "work"}) # {}

experienceScore(text) ==
    (IF someKeyword(text, experienceKeywords) THEN 10 * Pt ELSE 0)
  + (IF hasYears(text) THEN 10 * Pt ELSE 0)

\* /\b(bachelor|master|phd|b\.s\.|m\.s\.|b\.tech|m\.tech|b\.eng|m\.eng)\b/i.test(text)
hasDegree(text) ==
  LET lower == toLowerCase(text)
  IN  \E name \in degreeNames : \E p \in 1..Len(lower) :
        /\ LitAt(lower, p, name)
        /\ WordBoundary(lower, p)
        /\ WordBoundary(lower, p + Len(name))

educationScore(text) ==
    (IF someKeyword(text, educationKeywords) THEN 8 * Pt ELSE 0)
  + (IF hasDegree(text) THEN 7 * Pt ELSE 0)

\* Math.min(foundActionVerbs * 0.5, 10)
actionVerbsScore(text) == MathMin(foundCount(text, actionVerbs), 10 * Pt)

\* text.toLowerCase().includes('summary') || text.toLowerCase().includes('objective')
hasSections(text) ==
  LET lower == toLowerCase(text)
  IN  includes(lower, "summary") \/ includes(lower, "objective")

\* /[bullets]/.test(text) || /^\s*[-*]\s/m.test(text)
hasBulletPoints(text) ==
  \/ \E i \in 1..Len(text) : CharAt(text, i) \in bulletChars
  \/ LET lineStarts == {1} \cup {i + 1 : i \in {i \in 1..Len(text) :
                                                  CharAt(text, i) \in {"\n", "\r"}}}
     IN  \E q \in AfterSpaces(text, lineStarts) :
           AllIn(text, q, q, {"-", "*"}) /\ AllIn(text, q + 1, q + 1, SpaceChars)

formattingScore(text) ==
    (IF hasSections(text) THEN 5 * Pt ELSE 0)
  + (IF hasBulletPoints(text) THEN 5 * Pt ELSE 0)

Categories ==
  {"length", "contact", "skills", "experience", "education", "actionVerbs", "formatting"}

calculateAtsScore(text) ==
  LET words       == wordCount(text)
      contact     == contactScore(text)
      skills      == skillsScore(text)
      experience  == experienceScore(text)
      education   == educationScore(text)
      verbs       == actionVerbsScore(text)
      formatting  == formattingScore(text)
      totalScore  == lengthPoints(words) + contact + skills + experience
                       + education + verbs + formatting
      feedback    == [length      |-> lengthFeedback(words),
                      contact     |-> [score |-> contact, max |-> 10 * Pt],
                      skills      |-> [score |-> skills, max |-> 20 * Pt],
                      experience  |-> [score |-> experience, max |-> 20 * Pt],
                      education   |-> [score |-> education, max |-> 15 * Pt],
                      actionVerbs |-> [score |-> verbs, max |-> 10 * Pt],
                      formatting  |-> [score |-> formatting, max |-> 10 * Pt]]
  IN  [total     |-> MathRound(MathMin(totalScore, maxScore)),
       max       |-> maxScore,
       breakdown |-> feedback]

getScoreColor(s) ==
  IF s >= 80 * Pt THEN "text-green-400"
  ELSE IF s >= 60 * Pt THEN "text-yellow-400"
  ELSE IF s >= 40 * Pt THEN "text-orange-400"
  ELSE "text-red-400"

getScoreMessage(s) ==
  IF s >= 80 * Pt THEN "Excellent! Your resume is ATS optimized"
  ELSE IF s >= 60 * Pt THEN "Good! Your resume has decent ATS compatibility"
  ELSE IF s >= 40 * Pt THEN "Fair! Your resume needs some improvements"
  ELSE "Poor! Your resume needs significant improvements"

(***************************************************************************)
(* The resume texts the ResumeScore page is run on: up to MaxFragments of  *)
(* the fragments below, joined by single spaces, followed by a number of   *)
(* filler words, trimmed.                                                  *)
(***************************************************************************)
MaxFragments == 2

Fragments ==
  <<"jane.doe@mail.example.com",
    "1234567890",
    "(555) 123-4567",
    "LinkedIn",
    "Python React Node HTML CSS",
    "teamwork and problem solving",
    "5 years of experience",
    "Company",
    "M.Tech",
    "University degree",
    "Led a group",
    "Summary",
    "\n- shipped it",
    "~",
    "Hello there",
    "Objective: full stack engineer. j_doe@corp.io 09876543210 linkedin.com/in/jd "
      \o "Skills: javascript python java react node html css sql aws docker git mongodb "
      \o "postgresql typescript angular vue django flask spring microservices "
      \o "communication leadership 12 yrs work at a company. Bachelor of science, "
      \o "college. managed developed implemented created led designed built achieved "
      \o "improved increased reduced optimized launched coordinated trained mentored "
      \o "analyzed researched presented negotiated\n* done">>

\* the numbers of filler words, around the two length thresholds
PadWords == {0, 199, 200, 299, 300}

RECURSIVE Repeat(_, _)
Repeat(s, n) ==
  IF n <= 0 THEN ""
  ELSE IF n = 1 THEN s
  ELSE LET h == Repeat(s, n \div 2)
       IN  IF n % 2 = 0 THEN h \o h ELSE h \o h \o s

\* String.prototype.trim
trim(s) ==
  IF \A i \in 1..Len(s) : CharAt(s, i) \in SpaceChars THEN ""
  ELSE SubSeq(s,
              CHOOSE i \in 1..Len(s) :
                CharAt(s, i) \notin SpaceChars /\ AllIn(s, 1, i - 1, SpaceChars),
              CHOOSE i \in 1..Len(s) :
                CharAt(s, i) \notin SpaceChars /\ AllIn(s, i + 1, Len(s), SpaceChars))

RECURSIVE JoinFragments(_, _)
JoinFragments(S, from) ==
  IF from > Len(Fragments) THEN ""
  ELSE IF from \in S THEN " " \o Fragments[from] \o JoinFragments(S, from + 1)
  ELSE JoinFragments(S, from + 1)

FragmentSets(n) == {S \in SUBSET (1..Len(Fragments)) : Cardinality(S) <= n}

ResumeText(S, n) == trim(JoinFragments(S, 1) \o Repeat(" z", n))

\* the fragments the two resumes of a comparison are made of: an email, a
\* phone number, LinkedIn, five technical skills, soft skills, a section
\* heading, no keyword
PairFragments == {1, 2, 4, 5, 6, 12, 15}

MaxPairFragments == 4

PairTexts ==
  {ResumeText(S, 0) : S \in {S \in FragmentSets(MaxPairFragments) : S \subseteq PairFragments}}

\* every choice of fragments without filler, and the smaller choices with it
ResumeTexts ==
       {ResumeText(S, 0) : S \in FragmentSets(MaxFragments)}
  \cup {ResumeText(S, n) : S \in FragmentSets(MaxFragments - 1), n \in PadWords}

(***************************************************************************)
(* State.  A page's own state lives while the router shows the page: it    *)
(* is set to its useState initial values when the page is mounted and is   *)
(* gone when the page is left.                                             *)
(***************************************************************************)
VARIABLES
  version,          \* which of the two versions of the pages is running
  backend,          \* whether the backend can be reached in this session
  limits,           \* the most requests and timeouts at a time, and the most
                    \* answers of a session, that the run explores
  page,             \* the route the router shows
  stage,            \* how far the route walked since Home follows the order
                    \* role, experience, difficulty, resume step (OffHome when
                    \* the walk did not start at Home)
  storedText,       \* localStorage 'resumeText' ("" when absent)
  ctx,              \* InterviewContext
  rs,               \* ResumeScore
  up,               \* ResumeUpload
  sel,              \* RoleSelector, ExperienceSelector, DifficultySelector
  login,            \* Login
  cw,               \* ChatWindow
  pending,          \* the requests in flight and the timeouts set, oldest first
  sessionId,        \* the API client's session id
  lastShown,        \* history: the last analysis ResumeScore showed before
                    \* it was left
  returned,         \* what the last call of InterviewAPI.request resolved to
                    \* (<<>> before any has)
  twin,             \* the scores of a second interview, given the same
                    \* answers but for their filler-word ratio
  doc               \* the lines of the Questions & Answers section of the
                    \* last PDF report (<<>> before any is made)

vars ==
  <<version, backend, limits, page, stage, storedText, ctx, rs, up, sel, login, cw, pending,
    sessionId, lastShown, returned, twin, doc>>

Versions == {"earlier", "current"}

\* "down": every request of the session fails
Backends == {"up", "down"}

\* the analysis state before the first result: {}
NoAnalysis == [c \in {} |-> 0]

NoShown == [text |-> "", analysis |-> NoAnalysis]

\* ResumeScore's useState initial values; effect: the mount effect has yet
\* to run; timer: the texts of the pending analysis timeouts
RsInitial ==
  [resumeText |-> "", score |-> 0, analysis |-> NoAnalysis, isAnalyzing |-> TRUE,
   effect |-> TRUE, timer |-> <<>>]

\* ResumeScore unmounted: its state is gone and its timeouts act on nothing
RsGone == [RsInitial EXCEPT !.effect = FALSE]

\* ResumeUpload's useState initial values
UpInitial == [resumeTextInput |-> "", error |-> "", showAtsChecker |-> FALSE]

\* the selectors' useState initial values: the context's value, if any
SelMounted(to) ==
  [selected |-> IF to = "/role" THEN ctx.role
                ELSE IF to = "/experience" THEN ctx.experience
                ELSE IF to = "/difficulty" THEN ctx.difficulty
                ELSE "",
   error |-> ""]

\* Login's useState initial values
LoginInitial ==
  [filled |-> FALSE, error |-> "", loading |-> FALSE, isSignup |-> FALSE,
   successMessage |-> ""]

\* ChatWindow's useState initial values; effect: the mount effects have yet
\* to run (they run before the user can act on the page)
CwInitial ==
  [messages |-> <<>>, currentIndex |-> 0, progress |-> 15, input |-> "",
   isListening |-> FALSE, effect |-> TRUE]

\* ChatWindow unmounted
CwGone == [CwInitial EXCEPT !.effect = FALSE]

\* the score breakdown of a session that has not started
NoScores ==
  [communication |-> 0, confidence |-> 0, technical |-> 0, pace |-> 0, fillerWords |-> 0]

\* the context of a session that has not started
CtxInitial ==
  [role |-> "", experience |-> "", difficulty |-> "", resumeText |-> "",
   chat |-> <<>>, scoreBreakdown |-> NoScores, overallScore |-> 0]

\* no call of request has resolved
NoReturn == <<>>

\* the scores of a session that has not started
TwinInitial == [scoreBreakdown |-> NoScores, overallScore |-> 0]

\* no PDF report has been made
NoDoc == <<>>

\* no session id: null
NoSession == ""

\* the components that set the requests and timeouts of items are unmounted
Unmounted(items) == [i \in DOMAIN items |-> [items[i] EXCEPT !.live = FALSE]]

\* the pages of the resume step
ResumePages == {"/resume-upload", "/build-resume", "/resume-score"}

\* the routes of the router
Routes ==
  {"/", "/login", "/role", "/experience", "/resume-upload", "/resume-score",
   "/build-resume", "/difficulty", "/interview", "/summary"}

\* the stage of a walk that has not come by Home
OffHome == 0 - 1

\* the order the walk from Home is to follow, as the stage each page ends
StageAfter(st, to) ==
  IF to = "/" THEN 0
  ELSE IF st = 0 /\ to = "/role" THEN 1
  ELSE IF st = 1 /\ to = "/experience" THEN 2
  ELSE IF st = 2 /\ to = "/difficulty" THEN 3
  ELSE IF st = 3 /\ to \in ResumePages THEN 4
  ELSE st

\* useNavigate()(to), items being the requests and timeouts left: the router
\* unmounts the page shown and mounts to's, unless to is the page shown
Navigate(to, items) ==
  /\ page' = to
  /\ stage' = StageAfter(stage, to)
  /\ IF to = page
       THEN /\ UNCHANGED <<rs, up, sel, login, cw>>
            /\ pending' = items
       ELSE /\ rs' = IF to = "/resume-score" THEN RsInitial ELSE RsGone
            /\ up' = UpInitial
            /\ sel' = SelMounted(to)
            /\ login' = LoginInitial
            /\ cw' = IF to = "/interview" THEN CwInitial ELSE CwGone
            /\ pending' = Unmounted(items)

navigate(to) == Navigate(to, pending)

\* the browser loads the application at a route: the components' state, the
\* context and the API client are new, the requests and timeouts of the page
\* left are gone, and localStorage is what it was
Load(route) ==
  /\ page' = route
  /\ stage' = IF route = "/" THEN 0 ELSE OffHome
  /\ ctx' = CtxInitial
  /\ rs' = IF route = "/resume-score" THEN RsInitial ELSE RsGone
  /\ up' = UpInitial
  /\ sel' = [selected |-> "", error |-> ""]
  /\ login' = LoginInitial
  /\ cw' = IF route = "/interview" THEN CwInitial ELSE CwGone
  /\ pending' = <<>>
  /\ sessionId' = NoSession
  /\ lastShown' = NoShown
  /\ returned' = NoReturn
  /\ UNCHANGED <<version, backend, limits, storedText, twin, doc>>

(***************************************************************************)
(* ResumeScore.                                                            *)
(***************************************************************************)
\* useEffect(() => {...}, [navigate])
RsEffect ==
  /\ page = "/resume-score"
  /\ rs.effect
  /\ IF storedText # ""
       THEN /\ rs' = [rs EXCEPT !.resumeText = storedText,
                                !.timer = Append(rs.timer, storedText),
                                !.effect = FALSE]
            /\ UNCHANGED <<page, stage, up, sel, login, cw, pending>>
       ELSE navigate("/resume-upload")
  /\ UNCHANGED <<version, backend, limits, storedText, ctx, sessionId, lastShown, returned,
                 twin, doc>>

\* the setTimeout callback of the effect
RsTimeout ==
  /\ page = "/resume-score"
  /\ rs.timer # <<>>
  /\ LET result == calculateAtsScore(Head(rs.timer))
     IN  rs' = [rs EXCEPT !.score = result.total,
                          !.analysis = result.breakdown,
                          !.isAnalyzing = FALSE,
                          !.timer = Tail(rs.timer)]
  /\ UNCHANGED <<version, backend, limits, page, stage, storedText, ctx, up, sel, login, cw,
                 pending, sessionId, lastShown, returned, twin, doc>>

\* "Continue to Interview"
RsContinue ==
  /\ page = "/resume-score"
  /\ ~rs.isAnalyzing
  /\ navigate("/difficulty")
  /\ lastShown' = [text |-> rs.resumeText, analysis |-> rs.analysis]
  /\ UNCHANGED <<version, backend, limits, storedText, ctx, sessionId, returned, twin, doc>>

\* "Edit Resume"
RsEditResume ==
  /\ page = "/resume-score"
  /\ ~rs.isAnalyzing
  /\ navigate("/resume-upload")
  /\ lastShown' = [text |-> rs.resumeText, analysis |-> rs.analysis]
  /\ UNCHANGED <<version, backend, limits, storedText, ctx, sessionId, returned, twin, doc>>

(***************************************************************************)
(* ResumeUpload, in its two versions.  The PDF upload is not modelled.     *)
(***************************************************************************)
MinResumeLength(v) == IF v = "current" THEN 1000 ELSE 600

EnterTextMessage == "Please enter your resume text before proceeding."

TooShortMessage(v) ==
  IF v = "current"
    THEN "Resume text seems too short. Please ensure you've copied the complete resume (minimum 1000 characters required)."
    ELSE "Resume text seems too short. Please ensure you've copied the complete resume (minimum 600 characters required)."

SubmittedMessage ==
  "Resume text submitted successfully! You can now check your ATS score or continue to interview."

EnterTextForAtsMessage == "Please enter your resume text before checking ATS score."

\* slip: the length of the text as typed, not trimmed
tooShortUntrimmed(text, v) == Len(text) < MinResumeLength(v)

\* resumeTextInput.trim().length < minimum
tooShort(text, v) == Len(trim(text)) < MinResumeLength(v)

\* the textarea's onChange
UpType(texts) ==
  /\ page = "/resume-upload"
  /\ \E text \in texts : up' = [up EXCEPT !.resumeTextInput = text, !.error = ""]
  /\ UNCHANGED <<version, backend, limits, page, stage, storedText, ctx, rs, sel, login, cw,
                 pending, sessionId, lastShown, returned, twin, doc>>

\* handleManualTextSubmit
UpManualTextSubmit ==
  /\ page = "/resume-upload"
  /\ IF trim(up.resumeTextInput) = ""
       THEN /\ up' = [up EXCEPT !.error = EnterTextMessage]
            /\ UNCHANGED <<page, stage, ctx, rs, sel, login, cw, pending>>
     ELSE IF tooShort(up.resumeTextInput, version)
       THEN /\ up' = [up EXCEPT !.error = TooShortMessage(version)]
            /\ UNCHANGED <<page, stage, ctx, rs, sel, login, cw, pending>>
     ELSE IF version = "current"
       THEN /\ ctx' = [ctx EXCEPT !.resumeText = trim(up.resumeTextInput)]
            /\ up' = [up EXCEPT !.showAtsChecker = TRUE, !.error = SubmittedMessage]
            /\ UNCHANGED <<page, stage, rs, sel, login, cw, pending>>
     ELSE /\ ctx' = [ctx EXCEPT !.resumeText = trim(up.resumeTextInput)]
          /\ navigate("/interview")
  /\ UNCHANGED <<version, backend, limits, storedText, sessionId, lastShown, returned,
                 twin, doc>>

\* the submit button: disabled={resumeTextInput.trim().length < minimum}
UpClickSubmit ==
  /\ ~tooShort(up.resumeTextInput, version)
  /\ UpManualTextSubmit

\* checkAtsScore (current version; the button shows once showAtsChecker is set)
UpCheckAtsScore ==
  /\ page = "/resume-upload"
  /\ version = "current"
  /\ up.showAtsChecker
  /\ IF trim(up.resumeTextInput) = ""
       THEN /\ up' = [up EXCEPT !.error = EnterTextForAtsMessage]
            /\ UNCHANGED <<page, stage, storedText, rs, sel, login, cw, pending>>
       ELSE /\ storedText' = trim(up.resumeTextInput)
            /\ navigate("/resume-score")
  /\ UNCHANGED <<version, backend, limits, ctx, sessionId, lastShown, returned, twin, doc>>

\* "Continue to Interview" (current version, beside the ATS button)
UpContinue ==
  /\ page = "/resume-upload"
  /\ version = "current"
  /\ up.showAtsChecker
  /\ navigate("/difficulty")
  /\ UNCHANGED <<version, backend, limits, storedText, ctx, sessionId, lastShown, returned,
                 twin, doc>>

\* proceedWithoutResume
UpProceedWithoutResume ==
  /\ page = "/resume-upload"
  /\ ctx' = [ctx EXCEPT !.resumeText = "No resume provided"]
  /\ navigate(IF version = "current" THEN "/difficulty" ELSE "/interview")
  /\ UNCHANGED <<version, backend, limits, storedText, sessionId, lastShown, returned,
                 twin, doc>>

\* "Build New Resume"
UpBuildResume ==
  /\ page = "/resume-upload"
  /\ navigate("/build-resume")
  /\ UNCHANGED <<version, backend, limits, storedText, ctx, sessionId, lastShown, returned,
                 twin, doc>>

(***************************************************************************)
(* Requests and timeouts.  An item of pending is a request whose response  *)
(* has yet to come, with the handler's continuation, or a timeout that has *)
(* yet to fire; live tells that the component that set it is still mounted *)
(* (the state setters of an unmounted component do nothing).               *)
(***************************************************************************)
MaxPending == 2

Item(kind, arg, idx) == [kind |-> kind, live |-> TRUE, arg |-> arg, idx |-> idx]

\* the items but the i-th
Without(items, i) == SubSeq(items, 1, i - 1) \o SubSeq(items, i + 1, Len(items))

RequestKinds == {"post", "login", "question", "answer", "api", "fetch"}

TimeoutKinds == {"nextQuestion", "localQuestion", "summary"}

\* the delay of setTimeout, in milliseconds
Delay(kind) == IF kind = "summary" THEN 1500 ELSE 1000

\* a response may come in any order; a timeout fires once no timeout set
\* before it with at most its delay is left
Due(items, i) ==
  \/ items[i].kind \in RequestKinds
  \/ /\ items[i].kind \in TimeoutKinds
     /\ \A j \in 1..(i - 1) :
          items[j].kind \in TimeoutKinds => Delay(items[j].kind) > Delay(items[i].kind)

\* the same in a walk through the whole application
MaxAppPending == 1

\* the user can have one more request made
MayRequest == Len(pending) < limits.pending

(***************************************************************************)
(* Home.                                                                   *)
(***************************************************************************)
\* "Sign Up" and "Login"
HomeLogin ==
  /\ page = "/"
  /\ navigate("/login")
  /\ UNCHANGED <<version, backend, limits, storedText, ctx, sessionId, lastShown, returned,
                 twin, doc>>

\* "Continue as Guest"
HomeGuest ==
  /\ page = "/"
  /\ navigate("/role")
  /\ UNCHANGED <<version, backend, limits, storedText, ctx, sessionId, lastShown, returned,
                 twin, doc>>

(***************************************************************************)
(* Login, in its two versions: the current one has the sign-up mode and    *)
(* calls api.login and api.signup, which the exported api object does not  *)
(* have; the earlier one posts to /login and has the guest button.         *)
(***************************************************************************)
BothFieldsMessage == "Please enter both email and password."

SignupFailedMessage == "Signup failed. Please try again."

InvalidLoginMessage == "Invalid login. Try again."

AccountCreatedMessage == "Account created successfully! Please login."

\* handleChange: the form has both fields filled, or not
LoginChange ==
  /\ page = "/login"
  /\ \E filled \in BOOLEAN : login' = [login EXCEPT !.filled = filled]
  /\ UNCHANGED <<version, backend, limits, page, stage, storedText, ctx, rs, up, sel, cw,
                 pending, sessionId, lastShown, returned, twin, doc>>

\* toggleMode (current version)
LoginToggleMode ==
  /\ page = "/login"
  /\ version = "current"
  /\ login' = [login EXCEPT !.isSignup = ~login.isSignup, !.error = "",
                            !.successMessage = "", !.filled = FALSE]
  /\ UNCHANGED <<version, backend, limits, page, stage, storedText, ctx, rs, up, sel, cw,
                 pending, sessionId, lastShown, returned, twin, doc>>

\* handleSubmit, up to its await
LoginSubmit ==
  /\ page = "/login"
  /\ (login.filled /\ version = "earlier") => MayRequest
  /\ IF ~login.filled
       THEN /\ login' = [login EXCEPT !.error = BothFieldsMessage,
                                      !.successMessage = "", !.loading = FALSE]
            /\ UNCHANGED pending
     ELSE IF version = "earlier"
       THEN /\ login' = [login EXCEPT !.error = "", !.loading = TRUE]
            /\ pending' = Append(pending, Item("login", "", 0))
     ELSE IF login.isSignup
       \* api.signup is not a function: the TypeError is caught
       THEN /\ login' = [login EXCEPT !.error = SignupFailedMessage,
                                      !.successMessage = "", !.loading = FALSE]
            /\ UNCHANGED pending
     \* api.login is not a function: the TypeError ends the handler
     ELSE /\ login' = [login EXCEPT !.error = "", !.successMessage = "",
                                    !.loading = TRUE]
          /\ UNCHANGED pending
  /\ UNCHANGED <<version, backend, limits, page, stage, storedText, ctx, rs, up, sel, cw,
                 sessionId, lastShown, returned, twin, doc>>

\* handleSubmit after its await (earlier version): the response to /login
LoginResponse ==
  \E i \in DOMAIN pending, success \in BOOLEAN :
    /\ pending[i].kind = "login"
    /\ success => backend = "up"
    /\ IF success
         THEN Navigate("/role", Without(pending, i))
         ELSE /\ login' = IF pending[i].live
                            THEN [login EXCEPT !.loading = FALSE,
                                               !.error = InvalidLoginMessage]
                            ELSE login
              /\ pending' = Without(pending, i)
              /\ UNCHANGED <<page, stage, rs, up, sel, cw>>
    /\ UNCHANGED <<version, backend, limits, storedText, ctx, sessionId, lastShown,
                   returned, twin, doc>>

\* the back button (current version)
LoginBack ==
  /\ page = "/login"
  /\ version = "current"
  /\ navigate("/")
  /\ UNCHANGED <<version, backend, limits, storedText, ctx, sessionId, lastShown, returned,
                 twin, doc>>

\* "Continue as Guest" (earlier version)
LoginGuest ==
  /\ page = "/login"
  /\ version = "earlier"
  /\ navigate("/role")
  /\ UNCHANGED <<version, backend, limits, storedText, ctx, sessionId, lastShown, returned,
                 twin, doc>>

(***************************************************************************)
(* RoleSelector, ExperienceSelector, DifficultySelector.  The earlier      *)
(* DifficultySelector leads to the resume upload, the current one to the   *)
(* interview.                                                              *)
(***************************************************************************)
SelectorPages == {"/role", "/experience", "/difficulty"}

\* the values the user picks from (one of each list)
Choices ==
  [x \in SelectorPages |->
     IF x = "/role" THEN {"Frontend Developer"}
     ELSE IF x = "/experience" THEN {"0"}
     ELSE {"medium"}]

NothingSelectedMessage(x) ==
  IF x = "/role" THEN "Please select a job role."
  ELSE IF x = "/experience" THEN "Please choose your experience level."
  ELSE "Please choose a difficulty level."

\* where handleContinue navigates
NextPage(x, v) ==
  IF x = "/role" THEN "/experience"
  ELSE IF x = "/experience" THEN "/difficulty"
  ELSE IF v = "current" THEN "/interview"
  ELSE "/resume-upload"

\* setRole, setExperience, setDifficulty of the context
Chosen(x, value) ==
  IF x = "/role" THEN [ctx EXCEPT !.role = value]
  ELSE IF x = "/experience" THEN [ctx EXCEPT !.experience = value]
  ELSE [ctx EXCEPT !.difficulty = value]

\* a card's onClick: setSelectedRole, setSelectedExp, setSelectedDifficulty
SelSelect ==
  /\ page \in SelectorPages
  /\ \E value \in Choices[page] : sel' = [sel EXCEPT !.selected = value]
  /\ UNCHANGED <<version, backend, limits, page, stage, storedText, ctx, rs, up, login, cw,
                 pending, sessionId, lastShown, returned, twin, doc>>

\* slip: handleContinue without its check of the selection
SelContinueUnchecked ==
  /\ page \in SelectorPages
  /\ MayRequest
  /\ sel' = [sel EXCEPT !.error = ""]
  /\ ctx' = Chosen(page, sel.selected)
  /\ pending' = Append(pending, Item("post", NextPage(page, version), 0))
  /\ UNCHANGED <<version, backend, limits, page, stage, storedText, rs, up, login, cw,
                 sessionId, lastShown, returned, twin, doc>>

\* handleContinue, up to its await
SelContinue ==
  /\ page \in SelectorPages
  /\ sel.selected # "" => MayRequest
  /\ IF sel.selected = ""
       THEN /\ sel' = [sel EXCEPT !.error = NothingSelectedMessage(page)]
            /\ UNCHANGED <<ctx, pending>>
       ELSE /\ sel' = [sel EXCEPT !.error = ""]
            /\ ctx' = Chosen(page, sel.selected)
            /\ pending' = Append(pending, Item("post", NextPage(page, version), 0))
  /\ UNCHANGED <<version, backend, limits, page, stage, storedText, rs, up, login, cw,
                 sessionId, lastShown, returned, twin, doc>>

\* handleContinue after its await: api.post has resolved, whatever the
\* response
SelPosted ==
  \E i \in DOMAIN pending :
    /\ pending[i].kind = "post"
    /\ Navigate(pending[i].arg, Without(pending, i))
    /\ UNCHANGED <<version, backend, limits, storedText, ctx, sessionId, lastShown,
                   returned, twin, doc>>

(***************************************************************************)
(* BuildResume and Summary.  The form of BuildResume is not modelled: the  *)
(* resume text it saves is the JSON text of some form.                     *)
(***************************************************************************)
BuiltResumeText == "{ \"name\": \"\" }"

\* generatePDF
BuildGeneratePDF ==
  /\ page = "/build-resume"
  /\ ctx' = [ctx EXCEPT !.resumeText = BuiltResumeText]
  /\ navigate("/difficulty")
  /\ UNCHANGED <<version, backend, limits, storedText, sessionId, lastShown, returned,
                 twin, doc>>

\* "Practice Again": resetInterview(); navigate("/")
SumPracticeAgain ==
  /\ page = "/summary"
  /\ ctx' = CtxInitial
  /\ navigate("/")
  /\ UNCHANGED <<version, backend, limits, storedText, sessionId, lastShown, returned,
                 twin, doc>>

MathMax(a, b) == IF a >= b THEN a ELSE b

\* Object.values(scoreBreakdown).some(v => v > 0)
someAbove0(b) ==
  \/ b.communication > 0 \/ b.confidence > 0 \/ b.technical > 0
  \/ b.pace > 0 \/ b.fillerWords > 0

\* slip: the filler-word score is left out of the mean
calculatedOfFour(b) ==
  ((2 * (b.communication + b.technical + b.confidence + b.pace) + 4) \div 8)

\* calculated: Math.round(scores.reduce((a, b) => a + b, 0) / scores.length)
calculated(b) ==
  ((2 * (b.communication + b.technical + b.confidence
          + MathMax(0, 100 - b.fillerWords) + b.pace) + 5) \div 10)

\* the effect of Summary (current version; the earlier Summary has none):
\* it runs after the mount and after a change of the breakdown or the score
SumEffect ==
  /\ page = "/summary"
  /\ version = "current"
  /\ ctx.overallScore = 0
  /\ someAbove0(ctx.scoreBreakdown)
  /\ ctx' = [ctx EXCEPT !.overallScore = calculated(ctx.scoreBreakdown)]
  /\ UNCHANGED <<version, backend, limits, page, stage, storedText, rs, up, sel, login, cw,
                 pending, sessionId, lastShown, returned, twin, doc>>

(***************************************************************************)
(* ChatWindow.                                                             *)
(***************************************************************************)
questions ==
  <<"Tell me about yourself.",
    "Why are you interested in this role?",
    "Explain your latest project or work experience.",
    "What are your greatest strengths?",
    "Tell me about a challenge you faced and how you handled it.",
    "Where do you see yourself in five years?">>

welcomeMsg == "Welcome! Let's start your mock interview."

CompletedMessage == "Interview completed! Thank you for your time."

\* questions[i] of the code, whose indices start at 0
questionAt(i) == questions[i + 1]

Bot(text) == [sender |-> "bot", text |-> text]

User(text) == [sender |-> "user", text |-> text]

\* addMessage of the context
addMessage(x, sender, text) ==
  [x EXCEPT !.chat = Append(@, [sender |-> sender, text |-> text])]

\* the answers the user gives, each with what analyzeSpeech makes of it
\* (fillerPermille is fillerRatio * 1000)
AnswerSamples ==
  {[text |-> "I led a team of five.", clarityScore |-> 80, confidenceScore |-> 70,
    fillerPermille |-> 0],
   [text |-> "um, well, I guess so", clarityScore |-> 45, confidenceScore |-> 30,
    fillerPermille |-> 400],
   [text |-> "Yes.", clarityScore |-> 100, confidenceScore |-> 100,
    fillerPermille |-> 0],
   [text |-> "like, you know, like", clarityScore |-> 0, confidenceScore |-> 0,
    fillerPermille |-> 1000],
   [text |-> "I, um, shipped the release on time.", clarityScore |-> 65,
    confidenceScore |-> 55, fillerPermille |-> 125]}

analyzeSpeech(text) ==
  IF \E a \in AnswerSamples : a.text = text
    THEN CHOOSE a \in AnswerSamples : a.text = text
    ELSE [text |-> text, clarityScore |-> 50, confidenceScore |-> 50, fillerPermille |-> 0]

\* slip: Math.floor for Math.round
RoundedMeanDown(a, b) == (a + b) \div 2

\* Math.round((a + b) / 2) of integers a, b >= 0
RoundedMean(a, b) == (a + b + 1) \div 2

\* Math.round(n / d) of integers n >= 0, d > 0
RoundedQuotient(n, d) == (2 * n + d) \div (2 * d)

\* slip: the new breakdown is built without ...prev
setScoreBreakdownAnew(x, analysis) ==
  [x EXCEPT
     !.scoreBreakdown =
        [communication |-> RoundedMean(@.communication, analysis.clarityScore),
         confidence |-> RoundedMean(@.confidence, analysis.confidenceScore),
         technical |-> 0,
         pace |-> 0,
         fillerWords |->
           RoundedQuotient(10 * @.fillerWords + 1000 - analysis.fillerPermille, 20)]]

\* setScoreBreakdown(prev => ({...prev, communication: ..., ...})); the new
\* fillerWords is Math.round((prev.fillerWords + (100 - fillerRatio * 100)) / 2)
setScoreBreakdown(x, analysis) ==
  [x EXCEPT
     !.scoreBreakdown.communication = RoundedMean(@, analysis.clarityScore),
     !.scoreBreakdown.confidence = RoundedMean(@, analysis.confidenceScore),
     !.scoreBreakdown.fillerWords =
        RoundedQuotient(10 * @ + 1000 - analysis.fillerPermille, 20)]

\* the most answers ever given in a session
MaxAnswers == 4

\* the same in a session whose backend is down
MaxLocalAnswers == 6

\* the same in a walk through the whole application
MaxAppAnswers == 1

Answered == Cardinality({i \in DOMAIN ctx.chat : ctx.chat[i].sender = "user"})

\* the user can give one more answer
MayAnswer == MayRequest /\ Answered < limits.answers

\* the responses of responses the backend can give
Given(responses) ==
  IF backend = "down" THEN {r \in responses : ~r.success} ELSE responses

\* the question a backend makes up
BackendQuestion == "What is a closure?"

\* the responses to the request of the first question: none (the request
\* failed), and successes with or without a question and a session id
SessionIds == {"s1"}

QuestionFailed == {[success |-> FALSE, question |-> "", sessionId |-> NoSession]}

QuestionResponses ==
  QuestionFailed
    \cup {[success |-> TRUE, question |-> "", sessionId |-> NoSession]}
    \cup [success : {TRUE}, question : {BackendQuestion}, sessionId : SessionIds]

\* the responses to the submission of an answer
AnswerFailed == {[success |-> FALSE, completed |-> FALSE, question |-> ""]}

AnswerWithoutQuestion == {[success |-> TRUE, completed |-> FALSE, question |-> ""]}

AnswerResponses ==
  AnswerFailed \cup AnswerWithoutQuestion
    \cup {[success |-> TRUE, completed |-> TRUE, question |-> ""],
          [success |-> TRUE, completed |-> FALSE, question |-> BackendQuestion]}

\* the mount effect: initializeInterview, up to its await
CwEffect ==
  /\ page = "/interview"
  /\ cw.effect
  /\ MayRequest
  /\ cw' = [cw EXCEPT !.effect = FALSE]
  /\ pending' = Append(pending, Item("question", "", 0))
  /\ UNCHANGED <<version, backend, limits, page, stage, storedText, ctx, rs, up, sel, login,
                 sessionId, lastShown, returned, twin, doc>>

\* the first question of the chat: the backend's, or else the first local one
firstQuestion(response) ==
  IF response.success /\ response.question # "" THEN response.question ELSE questionAt(0)

\* api.getCurrentQuestion and initializeInterview after their awaits, the
\* response being one of responses
CwQuestionResponse(responses) ==
  \E i \in DOMAIN pending, response \in Given(responses) :
    /\ pending[i].kind = "question"
    /\ sessionId' = IF response.success /\ response.sessionId # NoSession
                      THEN response.sessionId
                      ELSE sessionId
    /\ cw' = IF pending[i].live
               THEN [cw EXCEPT !.messages = <<Bot(welcomeMsg), Bot(firstQuestion(response))>>]
               ELSE cw
    /\ ctx' = addMessage(ctx, "bot", welcomeMsg)
    /\ pending' = Without(pending, i)
    /\ UNCHANGED <<version, backend, limits, page, stage, storedText, rs, up, sel, login,
                   lastShown, returned, twin, doc>>

\* handleUserResponse(text), up to its await, called from a render whose
\* currentIndex is idx; c is the component's state as the caller leaves it
handleUserResponse(text, idx, c) ==
  LET cleanText == trim(text)
  IN  IF cleanText = ""
        THEN /\ cw' = c
             /\ UNCHANGED <<ctx, pending>>
        ELSE /\ cw' = [c EXCEPT !.messages = Append(@, User(cleanText))]
             /\ ctx' = setScoreBreakdown(addMessage(ctx, "user", cleanText),
                                         analyzeSpeech(cleanText))
             /\ pending' = Append(pending, Item("answer", cleanText, idx))

\* the input's onChange and sendText: the user types one of texts and sends
\* it (sendText does nothing when the input is blank, and clears the input
\* otherwise)
CwSendText(texts) ==
  /\ page = "/interview"
  /\ ~cw.effect
  /\ MayAnswer
  /\ \E text \in texts :
       /\ trim(text) # ""
       /\ handleUserResponse(text, cw.currentIndex, [cw EXCEPT !.input = ""])
  /\ UNCHANGED <<version, backend, limits, page, stage, storedText, rs, up, sel, login,
                 sessionId, lastShown, returned, twin, doc>>

\* startListening (recognitionRef is set by the mount effects)
CwStartListening ==
  /\ page = "/interview"
  /\ ~cw.effect
  /\ ~cw.isListening
  /\ cw' = [cw EXCEPT !.isListening = TRUE]
  /\ UNCHANGED <<version, backend, limits, page, stage, storedText, ctx, rs, up, sel, login,
                 pending, sessionId, lastShown, returned, twin, doc>>

\* stopListening, and recog.onend when nothing was heard
CwStopListening ==
  /\ page = "/interview"
  /\ cw.isListening
  /\ cw' = [cw EXCEPT !.isListening = FALSE]
  /\ UNCHANGED <<version, backend, limits, page, stage, storedText, ctx, rs, up, sel, login,
                 pending, sessionId, lastShown, returned, twin, doc>>

\* recog.onresult, then recog.onend (the recognition is not continuous): the
\* handleUserResponse of the first render is called, whose currentIndex is 0
CwSpeechResult(texts) ==
  /\ page = "/interview"
  /\ cw.isListening
  /\ MayAnswer
  /\ \E transcript \in texts :
       handleUserResponse(transcript, 0, [cw EXCEPT !.isListening = FALSE])
  /\ UNCHANGED <<version, backend, limits, page, stage, storedText, rs, up, sel, login,
                 sessionId, lastShown, returned, twin, doc>>

\* a timeout set by the continuation of the item it
After(it, kind, arg, idx) == [Item(kind, arg, idx) EXCEPT !.live = it.live]

\* handleUserResponse after its await, the response being one of responses
CwAnswerResponse(responses) ==
  \E i \in DOMAIN pending, response \in Given(responses) :
    LET it == pending[i]
        rest == Without(pending, i)
    IN  /\ it.kind = "answer"
        /\ IF response.success /\ response.completed
             THEN /\ cw' = IF it.live
                             THEN [cw EXCEPT !.messages = Append(@, Bot(CompletedMessage))]
                             ELSE cw
                  /\ pending' = Append(rest, After(it, "summary", "", 0))
           ELSE IF response.success /\ response.question # ""
             THEN /\ pending' = Append(rest, After(it, "nextQuestion", response.question, 0))
                  /\ UNCHANGED cw
           \* handleLocalQuestionProgression
           ELSE /\ pending' = Append(rest, After(it, "localQuestion", "", it.idx))
                /\ UNCHANGED cw
        /\ UNCHANGED <<version, backend, limits, page, stage, storedText, ctx, rs, up, sel,
                       login, sessionId, lastShown, returned, twin, doc>>

\* setProgress(prev => Math.min(prev + 17, 100))
Progressed(c) == [c EXCEPT !.progress = MathMin(@ + 17, 100)]

\* the timeout of the backend's next question
CwNextQuestionTimeout ==
  \E i \in DOMAIN pending :
    LET it == pending[i]
    IN  /\ it.kind = "nextQuestion"
        /\ Due(pending, i)
        /\ cw' = IF it.live
                   THEN Progressed([cw EXCEPT !.messages = Append(@, Bot(it.arg))])
                   ELSE cw
        /\ ctx' = addMessage(ctx, "bot", it.arg)
        /\ pending' = Without(pending, i)
        /\ UNCHANGED <<version, backend, limits, page, stage, storedText, rs, up, sel,
                       login, sessionId, lastShown, returned, twin, doc>>

\* slip: the question of the current index is asked again
nextLocalQuestionRepeated(idx) == questionAt(idx)

\* questions[nextIndex], nextIndex being currentIndex + 1
nextLocalQuestion(idx) == questionAt(idx + 1)

\* the timeout of handleLocalQuestionProgression
CwLocalQuestionTimeout ==
  \E i \in DOMAIN pending :
    LET it == pending[i]
        rest == Without(pending, i)
    IN  /\ it.kind = "localQuestion"
        /\ Due(pending, i)
        /\ IF it.idx < Len(questions) - 1
             THEN /\ cw' = IF it.live
                             THEN Progressed([cw EXCEPT
                                    !.currentIndex = it.idx + 1,
                                    !.messages = Append(@, Bot(nextLocalQuestion(it.idx)))])
                             ELSE cw
                  /\ ctx' = addMessage(ctx, "bot", nextLocalQuestion(it.idx))
                  /\ pending' = rest
             ELSE /\ pending' = Append(rest, After(it, "summary", "", 0))
                  /\ UNCHANGED <<cw, ctx>>
        /\ UNCHANGED <<version, backend, limits, page, stage, storedText, rs, up, sel,
                       login, sessionId, lastShown, returned, twin, doc>>

\* setTimeout(() => navigate("/summary"), 1500)
CwSummaryTimeout ==
  \E i \in DOMAIN pending :
    /\ pending[i].kind = "summary"
    /\ Due(pending, i)
    /\ Navigate("/summary", Without(pending, i))
    /\ UNCHANGED <<version, backend, limits, storedText, ctx, sessionId, lastShown,
                   returned, twin, doc>>

\* endInterview
CwEndInterview ==
  /\ page = "/interview"
  /\ ~cw.effect
  /\ navigate("/summary")
  /\ UNCHANGED <<version, backend, limits, storedText, ctx, sessionId, lastShown, returned,
                 twin, doc>>

\* the other pages are not mounted, no request is in flight and no timeout
\* is set, and the API client has no session
NothingElse ==
  /\ backend = "up"
  /\ limits = [pending |-> MaxPending, answers |-> MaxAnswers]
  /\ sel = [selected |-> "", error |-> ""]
  /\ login = LoginInitial
  /\ cw = CwGone
  /\ pending = <<>>
  /\ sessionId = NoSession

(***************************************************************************)
(* SpecAts: the ResumeScore page opened on each of the resume texts.       *)
(***************************************************************************)
InitAts ==
  /\ version = "current"
  /\ page = "/resume-score"
  /\ stage = 0
  /\ storedText \in ResumeTexts
  /\ ctx = CtxInitial
  /\ rs = RsInitial
  /\ up = UpInitial
  /\ NothingElse
  /\ lastShown = NoShown
  /\ returned = NoReturn
  /\ twin = TwinInitial
  /\ doc = NoDoc

NextAts == RsEffect \/ RsTimeout \/ RsContinue \/ RsEditResume

SpecAts == InitAts /\ [][NextAts]_vars

(***************************************************************************)
(* SpecAtsPair: ResumeScore shows the score of one resume, the user goes   *)
(* back to edit the resume and has the new text scored.  The ATS button of *)
(* the upload page is taken as shown, as it is once a resume was submitted.*)
(***************************************************************************)
InitAtsPair ==
  /\ version = "current"
  /\ page = "/resume-score"
  /\ stage = 0
  /\ storedText \in PairTexts \ {""}
  /\ ctx = CtxInitial
  /\ rs = RsInitial
  /\ up = UpInitial
  /\ NothingElse
  /\ lastShown = NoShown
  /\ returned = NoReturn
  /\ twin = TwinInitial
  /\ doc = NoDoc

\* the user pastes the next resume text and asks for its score
UpPasteAndCheck ==
  /\ page = "/resume-upload"
  /\ \E text \in PairTexts \ {""} :
       /\ storedText' = trim(text)
       /\ navigate("/resume-score")
  /\ UNCHANGED <<version, backend, limits, ctx, sessionId, lastShown, returned, twin, doc>>

NextAtsPair == RsEffect \/ RsTimeout \/ RsEditResume \/ UpPasteAndCheck

SpecAtsPair == InitAtsPair /\ [][NextAtsPair]_vars

(***************************************************************************)
(* SpecUpload: the ResumeUpload page of either version, its handlers       *)
(* called on every text of UploadInputs, and the ResumeScore page it leads *)
(* to and that leads back.                                                 *)
(***************************************************************************)
UploadInputs ==
  {"", "   ", "short resume",
   Repeat("x", 599), Repeat("x", 600), Repeat("x", 999), Repeat("x", 1000),
   " " \o Repeat("x", 599) \o " \n", "\t" \o Repeat("x", 999) \o "  ",
   " " \o Repeat("x", 1000) \o " "}

InitUpload ==
  /\ version \in Versions
  /\ page = "/resume-upload"
  /\ stage = 0
  /\ storedText = ""
  /\ ctx = CtxInitial
  /\ rs = RsGone
  /\ up = UpInitial
  /\ NothingElse
  /\ lastShown = NoShown
  /\ returned = NoReturn
  /\ twin = TwinInitial
  /\ doc = NoDoc

NextUpload ==
  \/ UpType(UploadInputs)
  \/ UpManualTextSubmit
  \/ UpCheckAtsScore
  \/ UpContinue
  \/ UpProceedWithoutResume
  \/ UpBuildResume
  \/ RsEffect
  \/ RsTimeout
  \/ RsEditResume
  \/ RsContinue

SpecUpload == InitUpload /\ [][NextUpload]_vars
(***************************************************************************)
(* SpecChat: the ChatWindow page from its mount on, with a backend that    *)
(* answers, fails or answers without a question, request by request.       *)
(***************************************************************************)
ChatInputs == {"   ", " I led a team of five. "}

ChatTranscripts == {"I led a team of five."}

InitChat ==
  /\ version = "current"
  /\ backend \in Backends
  /\ limits = [pending |-> MaxPending,
               answers |-> IF backend = "down" THEN MaxLocalAnswers ELSE MaxAnswers]
  /\ page = "/interview"
  /\ stage = 0
  /\ storedText = ""
  /\ ctx = CtxInitial
  /\ rs = RsGone
  /\ up = UpInitial
  /\ sel = [selected |-> "", error |-> ""]
  /\ login = LoginInitial
  /\ cw = CwInitial
  /\ pending = <<>>
  /\ sessionId = NoSession
  /\ lastShown = NoShown
  /\ returned = NoReturn
  /\ twin = TwinInitial
  /\ doc = NoDoc

NextChat ==
  \/ CwEffect
  \/ CwQuestionResponse(QuestionResponses)
  \/ CwSendText(ChatInputs)
  \/ CwStartListening
  \/ CwStopListening
  \/ CwSpeechResult(ChatTranscripts)
  \/ CwAnswerResponse(AnswerResponses)
  \/ CwNextQuestionTimeout
  \/ CwLocalQuestionTimeout
  \/ CwSummaryTimeout
  \/ CwEndInterview

SpecChat == InitChat /\ [][NextChat]_vars

(***************************************************************************)
(* SpecScores: an interview from the mount of the ChatWindow to the        *)
(* Summary, the answers typed one after the other, for each breakdown the  *)
(* context may start with.                                                 *)
(***************************************************************************)
MaxScorePending == 1

MaxScoreAnswers == 2

ScoreInputs == {a.text : a \in AnswerSamples}

\* the score breakdowns a session starts with
StartScores ==
  {NoScores,
   [communication |-> 0, confidence |-> 0, technical |-> 60, pace |-> 75, fillerWords |-> 0],
   [communication |-> 100, confidence |-> 100, technical |-> 100, pace |-> 100,
    fillerWords |-> 100],
   [communication |-> 33, confidence |-> 0, technical |-> 0, pace |-> 1, fillerWords |-> 50]}

InitScores ==
  /\ version = "current"
  /\ backend \in Backends
  /\ limits = [pending |-> MaxScorePending, answers |-> MaxScoreAnswers]
  /\ page = "/interview"
  /\ stage = 0
  /\ storedText = ""
  /\ \E start \in StartScores : ctx = [CtxInitial EXCEPT !.scoreBreakdown = start]
  /\ rs = RsGone
  /\ up = UpInitial
  /\ sel = [selected |-> "", error |-> ""]
  /\ login = LoginInitial
  /\ cw = CwInitial
  /\ pending = <<>>
  /\ sessionId = NoSession
  /\ lastShown = NoShown
  /\ returned = NoReturn
  /\ twin = TwinInitial
  /\ doc = NoDoc

NextScores ==
  \/ CwEffect
  \/ CwQuestionResponse(QuestionResponses)
  \/ CwSendText(ScoreInputs)
  \/ CwAnswerResponse(AnswerResponses)
  \/ CwNextQuestionTimeout
  \/ CwLocalQuestionTimeout
  \/ CwSummaryTimeout
  \/ CwEndInterview
  \/ SumEffect

SpecScores == InitScores /\ [][NextScores]_vars

(***************************************************************************)
(* InterviewAPI, the API client, its methods called in any order.  Of the  *)
(* methods that leave the session id alone, some stand for the rest;       *)
(* checkHealth and its isConnected are not modelled.                       *)
(***************************************************************************)
\* the promise an async method returns, once settled
Fulfilled(value) == [state |-> "fulfilled", value |-> value]

Rejected(message) ==
  [state |-> "rejected",
   value |-> [success |-> FALSE, error |-> TRUE, detail |-> "", message |-> message]]

\* the methods that take the session id of a response, by the field they
\* take it from: session_id, data.session_id, sessionId
SetupMethods == {"setupCompleteInterview"}

LegacyMethods == {"setRole", "setExperience", "setDifficulty"}

InterviewMethods == {"startInterview", "getCurrentQuestion"}

\* methods that throw 'No active session' unless there is a session id
SessionMethods ==
  {"uploadResume", "getNextQuestion", "getInterviewProgress", "generateQuestions",
   "submitAnswer", "generateFollowUp", "getEvaluationHistory", "generateFinalReport",
   "downloadReport", "getReportSummary", "getInterviewAnalytics"}

\* the message of the Error thrown without a session id
NoActiveSessionMessage(method) ==
  IF method = "uploadResume"
    THEN "No active session. Please start interview setup first."
    ELSE "No active session"

\* what deleteSession returns without a session id
NothingToDelete ==
  [success |-> TRUE, error |-> FALSE, detail |-> "",
   message |-> "No active session to delete"]

\* methods that only make their request
PlainMethods == {"login", "createGuestSession", "submitInterviewAnswer", "askGeneralQuestion"}

ApiMethods ==
  SetupMethods \cup LegacyMethods \cup InterviewMethods \cup SessionMethods
    \cup PlainMethods \cup {"deleteSession"}

\* the session ids a caller passes to setSessionId
RestoredIds == {"s0"}

\* what request() returns: the body of the response, or, when the request
\* failed, an object with success false and no session id
ApiResponses ==
  [success : BOOLEAN, session_id : {NoSession} \cup SessionIds,
   data_session_id : {NoSession} \cup SessionIds,
   sessionId : {NoSession} \cup SessionIds]

\* slip: downloadReport without its check of the session id
ApiCallButDownload(methods) ==
  /\ \E method \in methods \cap ApiMethods :
       IF method \in SessionMethods \ {"downloadReport"} /\ sessionId = NoSession
         THEN /\ returned' = <<Rejected(NoActiveSessionMessage(method))>>
              /\ UNCHANGED pending
       ELSE IF method = "deleteSession" /\ sessionId = NoSession
         THEN /\ returned' = <<Fulfilled(NothingToDelete)>>
              /\ UNCHANGED pending
       ELSE /\ MayRequest
            /\ pending' = Append(pending, Item("api", method, 0))
            /\ UNCHANGED returned
  /\ UNCHANGED <<version, backend, limits, page, stage, storedText, ctx, rs, up, sel, login,
                 cw, sessionId, lastShown, twin, doc>>

\* one of methods is called, up to its await or to its throw; the promise of
\* a method that has thrown is rejected, Rejected(message) having the
\* message of the Error
ApiCall(methods) ==
  /\ \E method \in methods \cap ApiMethods :
       IF method \in SessionMethods /\ sessionId = NoSession
         THEN /\ returned' = <<Rejected(NoActiveSessionMessage(method))>>
              /\ UNCHANGED pending
       ELSE IF method = "deleteSession" /\ sessionId = NoSession
         THEN /\ returned' = <<Fulfilled(NothingToDelete)>>
              /\ UNCHANGED pending
       ELSE /\ MayRequest
            /\ pending' = Append(pending, Item("api", method, 0))
            /\ UNCHANGED returned
  /\ UNCHANGED <<version, backend, limits, page, stage, storedText, ctx, rs, up, sel, login,
                 cw, sessionId, lastShown, twin, doc>>

\* slip: the session id of a response is taken whether or not it succeeded
sessionIdAfterUnchecked(method, response, current) ==
  IF method \in SetupMethods /\ response.session_id # NoSession
    THEN response.session_id
  ELSE IF method \in LegacyMethods /\ response.data_session_id # NoSession
    THEN response.data_session_id
  ELSE IF method \in InterviewMethods /\ response.sessionId # NoSession
    THEN response.sessionId
  ELSE IF method = "deleteSession" THEN NoSession
  ELSE current

\* this.sessionId once the method has had its response, current being
\* this.sessionId before
sessionIdAfter(method, response, current) ==
  IF method \in SetupMethods /\ response.success /\ response.session_id # NoSession
    THEN response.session_id
  ELSE IF method \in LegacyMethods /\ response.success
            /\ response.data_session_id # NoSession
    THEN response.data_session_id
  ELSE IF method \in InterviewMethods /\ response.success
            /\ response.sessionId # NoSession
    THEN response.sessionId
  ELSE IF method = "deleteSession" THEN NoSession
  ELSE current

\* one of methods after its await, the response being one of responses
ApiResponse(methods, responses) ==
  \E i \in DOMAIN pending, response \in Given(responses) :
    /\ pending[i].kind = "api"
    /\ pending[i].arg \in methods
    /\ sessionId' = sessionIdAfter(pending[i].arg, response, sessionId)
    /\ pending' = Without(pending, i)
    /\ UNCHANGED <<version, backend, limits, page, stage, storedText, ctx, rs, up, sel,
                   login, cw, lastShown, returned, twin, doc>>

\* setSessionId
ApiSetSessionId ==
  /\ \E id \in RestoredIds : sessionId' = id
  /\ UNCHANGED <<version, backend, limits, page, stage, storedText, ctx, rs, up, sel, login,
                 cw, pending, lastShown, returned, twin, doc>>

\* clearSession
ApiClearSession ==
  /\ sessionId' = NoSession
  /\ UNCHANGED <<version, backend, limits, page, stage, storedText, ctx, rs, up, sel, login,
                 cw, pending, lastShown, returned, twin, doc>>

(***************************************************************************)
(* SpecApi: the API client alone.                                          *)
(***************************************************************************)
InitApi ==
  /\ version = "current"
  /\ page = "/"
  /\ stage = 0
  /\ storedText = ""
  /\ ctx = CtxInitial
  /\ rs = RsGone
  /\ up = UpInitial
  /\ NothingElse
  /\ lastShown = NoShown
  /\ returned = NoReturn
  /\ twin = TwinInitial
  /\ doc = NoDoc

NextApi ==
  \/ ApiCall(ApiMethods)
  \/ ApiResponse(ApiMethods, ApiResponses)
  \/ ApiSetSessionId
  \/ ApiClearSession

SpecApi == InitApi /\ [][NextApi]_vars

(***************************************************************************)
(* SpecTwin: two interviews side by side, from the same breakdown, given   *)
(* the same answers but for the filler-word ratio, which in the second     *)
(* (twin) is at least the first's at every answer; then the Summary of     *)
(* each.                                                                   *)
(***************************************************************************)
MaxTwinAnswers == 2

\* the filler-word ratios of the twin's answers, times 1000
FillerPermilles == {0, 125, 400, 1000}

\* handleUserResponse in both interviews: addMessage and setScoreBreakdown
TwinAnswer ==
  /\ page = "/interview"
  /\ ~cw.effect
  /\ Answered < limits.answers
  /\ \E a \in AnswerSamples, higher \in FillerPermilles :
       /\ higher >= a.fillerPermille
       /\ ctx' = setScoreBreakdown(addMessage(ctx, "user", a.text), a)
       /\ twin' = setScoreBreakdown(twin, [a EXCEPT !.fillerPermille = higher])
  /\ UNCHANGED <<version, backend, limits, page, stage, storedText, rs, up, sel, login, cw,
                 pending, sessionId, lastShown, returned, doc>>

\* the overall score once the effect of Summary has run on the scores x
summarised(x) ==
  IF x.overallScore = 0 /\ someAbove0(x.scoreBreakdown)
    THEN [x EXCEPT !.overallScore = calculated(x.scoreBreakdown)]
    ELSE x

\* the effect of Summary in both interviews
TwinSumEffect ==
  /\ page = "/summary"
  /\ version = "current"
  /\ ctx' = summarised(ctx)
  /\ twin' = summarised(twin)
  /\ UNCHANGED <<version, backend, limits, page, stage, storedText, rs, up, sel, login, cw,
                 pending, sessionId, lastShown, returned, doc>>

InitTwin ==
  /\ version = "current"
  /\ backend = "up"
  /\ limits = [pending |-> MaxScorePending, answers |-> MaxTwinAnswers]
  /\ page = "/interview"
  /\ stage = 0
  /\ storedText = ""
  /\ \E start \in StartScores :
       /\ ctx = [CtxInitial EXCEPT !.scoreBreakdown = start]
       /\ twin = [TwinInitial EXCEPT !.scoreBreakdown = start]
  /\ doc = NoDoc
  /\ rs = RsGone
  /\ up = UpInitial
  /\ sel = [selected |-> "", error |-> ""]
  /\ login = LoginInitial
  /\ cw = CwInitial
  /\ pending = <<>>
  /\ sessionId = NoSession
  /\ lastShown = NoShown
  /\ returned = NoReturn

NextTwin ==
  \/ CwEffect
  \/ CwQuestionResponse(QuestionResponses)
  \/ TwinAnswer
  \/ CwEndInterview
  \/ TwinSumEffect

SpecTwin == InitTwin /\ [][NextTwin]_vars

(***************************************************************************)
(* InterviewAPI.request.  What fetch and response.json() do is the input:  *)
(* fetch rejects (the network failed) or resolves with a status that is    *)
(* 2xx (ok) or not, and the body parses as JSON (json holds the value) or   *)
(* does not (json is empty).                                               *)
(***************************************************************************)
Endpoints == {"/login", "/api/interview/current-question"}

\* the bodies a backend sends: objects with some of the fields the client
\* reads ("" and FALSE when absent)
Bodies ==
  [success : BOOLEAN, error : BOOLEAN, detail : {"", "Session not found"},
   message : {"", "Invalid credentials"}]

FetchOutcomes ==
  [fetch : {"resolved"}, ok : BOOLEAN, json : {<<>>} \cup {<<b>> : b \in Bodies}]
    \cup {[fetch |-> "rejected", ok |-> FALSE, json |-> <<>>]}

NetworkErrorMessage == "Failed to fetch"

SyntaxErrorMessage == "Unexpected token < in JSON at position 0"

StatusMessage == "HTTP 500: Internal Server Error"

\* the message of the error thrown inside the try block
thrown(outcome) ==
  IF outcome.fetch = "rejected" THEN NetworkErrorMessage
  ELSE IF outcome.json = <<>> THEN SyntaxErrorMessage
  ELSE IF ~outcome.ok
    THEN (IF outcome.json[1].detail # "" THEN outcome.json[1].detail ELSE StatusMessage)
  ELSE ""

\* slip: no catch block, the error thrown rejects the promise
requestUncaught(outcome) ==
  IF thrown(outcome) # ""
    THEN Rejected(thrown(outcome))
    ELSE Fulfilled(outcome.json[1])

\* what the promise of request() settles to
request(outcome) ==
  IF thrown(outcome) # ""
    THEN Fulfilled([success |-> FALSE, error |-> TRUE, detail |-> "",
                    message |-> thrown(outcome)])
    ELSE Fulfilled(outcome.json[1])

\* request(endpoint, options), up to await fetch
ReqCall ==
  /\ MayRequest
  /\ \E endpoint \in Endpoints : pending' = Append(pending, Item("fetch", endpoint, 0))
  /\ UNCHANGED <<version, backend, limits, page, stage, storedText, ctx, rs, up, sel, login,
                 cw, sessionId, lastShown, returned, twin, doc>>

\* request after its awaits, fetch and response.json() having done one of
\* outcomes
ReqSettle(outcomes) ==
  /\ \E i \in DOMAIN pending, outcome \in outcomes :
       /\ pending[i].kind = "fetch"
       /\ returned' = <<request(outcome)>>
       /\ pending' = Without(pending, i)
  /\ UNCHANGED <<version, backend, limits, page, stage, storedText, ctx, rs, up, sel, login,
                 cw, sessionId, lastShown, twin, doc>>

InitRequest ==
  /\ version = "current"
  /\ page = "/"
  /\ stage = 0
  /\ storedText = ""
  /\ ctx = CtxInitial
  /\ rs = RsGone
  /\ up = UpInitial
  /\ NothingElse
  /\ lastShown = NoShown
  /\ returned = NoReturn
  /\ twin = TwinInitial
  /\ doc = NoDoc

NextRequest == ReqCall \/ ReqSettle(FetchOutcomes)

SpecRequest == InitRequest /\ [][NextRequest]_vars

(***************************************************************************)
(* SpecApp: the whole application, from Home on, in either version.  The   *)
(* pages are reached by the application's own navigation only.             *)
(***************************************************************************)
AppResumeInputs == {Repeat("resume ", 150)}

InitApp ==
  /\ version \in Versions
  /\ backend = "up"
  /\ limits = [pending |-> MaxAppPending, answers |-> MaxAppAnswers]
  /\ page = "/"
  /\ stage = 0
  /\ storedText = ""
  /\ ctx = CtxInitial
  /\ rs = RsGone
  /\ up = UpInitial
  /\ sel = [selected |-> "", error |-> ""]
  /\ login = LoginInitial
  /\ cw = CwGone
  /\ pending = <<>>
  /\ sessionId = NoSession
  /\ lastShown = NoShown
  /\ returned = NoReturn
  /\ twin = TwinInitial
  /\ doc = NoDoc

NextApp ==
  \/ \E route \in Routes : Load(route)
  \/ HomeLogin
  \/ HomeGuest
  \/ LoginChange
  \/ LoginToggleMode
  \/ LoginSubmit
  \/ LoginResponse
  \/ LoginBack
  \/ LoginGuest
  \/ SelSelect
  \/ SelContinue
  \/ SelPosted
  \/ UpType(AppResumeInputs)
  \/ UpClickSubmit
  \/ UpCheckAtsScore
  \/ UpContinue
  \/ UpProceedWithoutResume
  \/ UpBuildResume
  \/ BuildGeneratePDF
  \/ RsEffect
  \/ RsTimeout
  \/ RsContinue
  \/ RsEditResume
  \/ CwEffect
  \/ CwQuestionResponse(QuestionResponses)
  \/ CwSendText(ChatInputs)
  \/ CwStartListening
  \/ CwStopListening
  \/ CwSpeechResult(ChatTranscripts)
  \/ CwAnswerResponse(AnswerResponses)
  \/ CwNextQuestionTimeout
  \/ CwLocalQuestionTimeout
  \/ CwSummaryTimeout
  \/ CwEndInterview
  \/ SumPracticeAgain

SpecApp == InitApp /\ [][NextApp]_vars

(***************************************************************************)
(* Summary.downloadReport, the Questions & Answers section of the PDF.     *)
(* Each text is one line of the section: splitTextToSize and the page      *)
(* breaks are layout.                                                      *)
(***************************************************************************)
MaxChat == 4

\* let currentQuestion = null; let qaCount = 0
NoPairs == [currentQuestion |-> <<>>, qaCount |-> 0, lines |-> <<>>]

\* currentQuestion is neither null nor the empty string
truthy(currentQuestion) == currentQuestion # <<>> /\ currentQuestion[1] # ""

\* slip: currentQuestion is not set back to null after a pair
forEachKeeping(s, msg) ==
  IF msg.sender = "ai" \/ msg.sender = "bot"
    THEN [s EXCEPT !.currentQuestion = <<msg.text>>]
  ELSE IF (msg.sender = "user" \/ msg.sender = "assistant") /\ truthy(s.currentQuestion)
    THEN [currentQuestion |-> s.currentQuestion,
          qaCount |-> s.qaCount + 1,
          lines |-> s.lines \o <<"Q" \o ToString(s.qaCount + 1) \o ": "
                                   \o s.currentQuestion[1],
                                 "A: " \o msg.text>>]
  ELSE s

\* the callback of chat.forEach, s being currentQuestion, qaCount and the
\* lines written so far
forEach(s, msg) ==
  IF msg.sender = "ai" \/ msg.sender = "bot"
    THEN [s EXCEPT !.currentQuestion = <<msg.text>>]
  ELSE IF (msg.sender = "user" \/ msg.sender = "assistant") /\ truthy(s.currentQuestion)
    THEN [currentQuestion |-> <<>>,
          qaCount |-> s.qaCount + 1,
          lines |-> s.lines \o <<"Q" \o ToString(s.qaCount + 1) \o ": "
                                   \o s.currentQuestion[1],
                                 "A: " \o msg.text>>]
  ELSE s

\* chat.forEach over the first n messages
RECURSIVE parsed(_, _)
parsed(chat, n) == IF n = 0 THEN NoPairs ELSE forEach(parsed(chat, n - 1), chat[n])

NoPairsNote == "(Full transcript available in the Full Transcript section above)"

\* the lines of the section: the pairs, or the note when there are none
QuestionsAndAnswers(chat) ==
  LET s == parsed(chat, Len(chat))
  IN  IF s.qaCount = 0 /\ Len(chat) > 0 THEN <<NoPairsNote>> ELSE s.lines

\* "Download Report": downloadReport
SumDownloadReport ==
  /\ page = "/summary"
  /\ version = "current"
  /\ doc' = QuestionsAndAnswers(ctx.chat)
  /\ UNCHANGED <<version, backend, limits, page, stage, storedText, ctx, rs, up, sel,
                 login, cw, pending, sessionId, lastShown, returned, twin>>

(***************************************************************************)
(* SpecReport: the Summary page with some transcript in the context.       *)
(***************************************************************************)
\* the messages of the transcripts: questions, answers, a question without
\* text, and the senders "ai" and "assistant" downloadReport also accepts
ReportMessages ==
  {Bot("Tell me about yourself."), Bot("What are your strengths?"), Bot(""),
   User("I led a team of five."), User("Yes."),
   [sender |-> "ai", text |-> "Describe a challenge you faced."],
   [sender |-> "assistant", text |-> "um, well, I guess so"]}

RECURSIVE ChatsOf(_)
ChatsOf(n) ==
  IF n = 0 THEN {<<>>}
  ELSE LET shorter == ChatsOf(n - 1)
       IN  shorter \cup {Append(c, msg) : c \in shorter, msg \in ReportMessages}

InitReport ==
  /\ version = "current"
  /\ backend = "up"
  /\ limits = [pending |-> MaxAppPending, answers |-> MaxAppAnswers]
  /\ page = "/summary"
  /\ stage = OffHome
  /\ storedText = ""
  /\ \E chat \in ChatsOf(MaxChat) : ctx = [CtxInitial EXCEPT !.chat = chat]
  /\ rs = RsGone
  /\ up = UpInitial
  /\ sel = [selected |-> "", error |-> ""]
  /\ login = LoginInitial
  /\ cw = CwGone
  /\ pending = <<>>
  /\ sessionId = NoSession
  /\ lastShown = NoShown
  /\ returned = NoReturn
  /\ twin = TwinInitial
  /\ doc = NoDoc

NextReport ==
  \/ SumDownloadReport
  \/ SumPracticeAgain

SpecReport == InitReport /\ [][NextReport]_vars

(***************************************************************************)
(* Properties of the ATS score.  Scores are counted in half points (Pt).   *)
(***************************************************************************)
\* ResumeScore shows a result
Shown == page = "/resume-score" /\ ~rs.isAnalyzing

BreakdownSum(b) ==
  b.length.score + b.contact.score + b.skills.score + b.experience.score
    + b.education.score + b.actionVerbs.score + b.formatting.score

\* the maximum of each category, in points, as the specification states them
StatedMax ==
  [length |-> 15, contact |-> 10, skills |-> 20, experience |-> 20,
   education |-> 15, actionVerbs |-> 10, formatting |-> 10]

\* C1: the total score calculateAtsScore returns is a whole number of points
\* between 0 and 100.
C1_TotalIsIntegerIn0To100 ==
  Shown => /\ rs.score % Pt = 0
           /\ 0 <= rs.score
           /\ rs.score <= 100 * Pt

\* a result whose sub-scores add up to 5.5 points and whose total is 6
C1_Witness ==
  /\ Shown
  /\ rs.analysis.actionVerbs.score % Pt = 1
  /\ BreakdownSum(rs.analysis) = 5 * Pt + 1
  /\ rs.score = 6 * Pt

\* C2: the breakdown has exactly the seven categories, each with the stated
\* maximum and a score between 0 and that maximum.
C2_SubScoresWithinMax ==
  Shown => /\ DOMAIN rs.analysis = Categories
           /\ \A c \in Categories :
                /\ rs.analysis[c].max = StatedMax[c] * Pt
                /\ 0 <= rs.analysis[c].score
                /\ rs.analysis[c].score <= rs.analysis[c].max

\* a resume with more than ten technical skills that reaches every maximum
C2_Witness ==
  /\ Shown
  /\ foundCount(rs.resumeText, technicalSkills) > 10
  /\ \A c \in Categories : rs.analysis[c].score = StatedMax[c] * Pt

\* C3: the total is the sum of the seven sub-scores, capped at 100 and
\* rounded to the nearest whole number of points.
C3_TotalIsCappedRoundedSum ==
  Shown => LET capped == MathMin(BreakdownSum(rs.analysis), 100 * Pt)
           IN  /\ rs.score % Pt = 0
               /\ rs.score - capped <= 1
               /\ capped - rs.score <= 1

\* a resume of 300 words or more whose sub-scores add up to a half point,
\* which the total rounds up
C3_Witness ==
  /\ Shown
  /\ BreakdownSum(rs.analysis) % Pt = 1
  /\ rs.analysis.length.score = 15 * Pt
  /\ rs.score = BreakdownSum(rs.analysis) + 1

\* text A of the comparison: an email, a phone number, five technical skills
HasContactAndSkills(text) ==
  /\ hasEmail(text)
  /\ hasPhone(text)
  /\ foundCount(text, technicalSkills) >= 5

\* text B of the comparison: no email, phone, LinkedIn or skill keyword
HasNoContactNorSkill(text) ==
  /\ ~hasEmail(text)
  /\ ~hasPhone(text)
  /\ ~hasLinkedIn(text)
  /\ foundCount(text, technicalSkills) = 0
  /\ foundCount(text, softSkills) = 0

\* a and b are results [text, analysis]: a's contact and skills sub-scores
\* are strictly higher than b's
HigherContactAndSkills(a, b) ==
  /\ a.analysis.contact.score > b.analysis.contact.score
  /\ a.analysis.skills.score > b.analysis.skills.score

\* the result ResumeScore shows
NowShown == [text |-> rs.resumeText, analysis |-> rs.analysis]

\* C4: of two resume texts scored one after the other, the one with an
\* email, a phone number and at least five technical skills has a strictly
\* higher contact sub-score and a strictly higher skills sub-score than the
\* one with no email, phone, LinkedIn mention or skill keyword.
C4_ContactAndSkillsScoreHigher ==
  (Shown /\ lastShown # NoShown) =>
    /\ (HasContactAndSkills(rs.resumeText) /\ HasNoContactNorSkill(lastShown.text))
         => HigherContactAndSkills(NowShown, lastShown)
    /\ (HasContactAndSkills(lastShown.text) /\ HasNoContactNorSkill(rs.resumeText))
         => HigherContactAndSkills(lastShown, NowShown)

\* a resume with exactly five technical skills and no soft skill is shown
\* after one with neither contact details nor skills
C4_Witness ==
  /\ Shown
  /\ lastShown # NoShown
  /\ HasContactAndSkills(rs.resumeText)
  /\ foundCount(rs.resumeText, technicalSkills) = 5
  /\ foundCount(rs.resumeText, softSkills) = 0
  /\ HasNoContactNorSkill(lastShown.text)
  /\ lastShown.analysis.contact.score = 0

\* the text matches none of the patterns and keywords of the scoring
MatchesNothing(text) ==
  /\ ~hasEmail(text)
  /\ ~hasPhone(text)
  /\ ~hasLinkedIn(text)
  /\ foundCount(text, technicalSkills) = 0
  /\ foundCount(text, softSkills) = 0
  /\ ~someKeyword(text, experienceKeywords)
  /\ ~hasYears(text)
  /\ ~someKeyword(text, educationKeywords)
  /\ ~hasDegree(text)
  /\ foundCount(text, actionVerbs) = 0
  /\ ~hasSections(text)
  /\ ~hasBulletPoints(text)

\* C5: the empty text, and a text of fewer than 200 words that matches
\* nothing, score 5 out of 100, which is in the lowest band (below 40,
\* 'Poor').
C5_NearEmptyScoresFive ==
  /\ calculateAtsScore("").total = 5 * Pt
  /\ calculateAtsScore("").max = 100 * Pt
  /\ (Shown /\ wordCount(rs.resumeText) < 200 /\ MatchesNothing(rs.resumeText))
       => /\ rs.score = 5 * Pt
          /\ rs.score < 40 * Pt
          /\ getScoreColor(rs.score) = "text-red-400"
          /\ getScoreMessage(rs.score) = "Poor! Your resume needs significant improvements"

\* a resume of 199 filler words is shown with 5 points
C5_Witness ==
  /\ Shown
  /\ wordCount(rs.resumeText) = 199
  /\ MatchesNothing(rs.resumeText)
  /\ rs.score = 5 * Pt

(***************************************************************************)
(* Properties of the resume upload.                                        *)
(***************************************************************************)
\* C8: a manual submission of a text that, once trimmed, is empty or shorter
\* than the minimum of the version (1000 current, 600 earlier) sets an error
\* message, leaves the resume text of the session as it was, does not
\* navigate and does not turn the ATS option on.
C8_ShortManualTextRejected ==
  [][(UpManualTextSubmit /\ Len(trim(up.resumeTextInput)) < MinResumeLength(version))
       => /\ up'.error = IF trim(up.resumeTextInput) = ""
                           THEN EnterTextMessage
                           ELSE TooShortMessage(version)
          /\ ctx' = ctx
          /\ page' = page
          /\ up'.showAtsChecker = up.showAtsChecker]_vars

\* after a resume was accepted, a text one character short of the minimum
\* once trimmed, but not as typed, has been turned down
C8_Witness ==
  /\ page = "/resume-upload"
  /\ up.error = TooShortMessage(version)
  /\ Len(trim(up.resumeTextInput)) = MinResumeLength(version) - 1
  /\ Len(up.resumeTextInput) >= MinResumeLength(version)
  /\ ctx.resumeText \notin {"", "No resume provided"}

(***************************************************************************)
(* Properties of the chat.                                                 *)
(***************************************************************************)
\* the requests of the first question in flight are the mounted page's
QuestionAwaited ==
  /\ page = "/interview"
  /\ \A i \in DOMAIN pending : pending[i].kind = "question" => pending[i].live

\* the step asks, in the chat of a mounted page, the question text, or
\* nothing when text is ""
Asks(text) ==
  IF text = ""
    THEN cw'.messages = cw.messages
    ELSE \/ cw'.messages = Append(cw.messages, Bot(text))
         \/ page # "/interview" /\ cw' = cw

\* C7: when the request of the first question fails, the chat opens with the
\* welcome message and the first question of the local list; when the
\* submission of an answer fails or returns no question, the timeout of the
\* local progression is set and none for a backend question, and the question
\* that timeout asks is the one of the local list after the index the answer
\* was given at (none after the last, where the summary follows).
C7_FallsBackToLocalQuestions ==
  [][/\ (QuestionAwaited /\ CwQuestionResponse(QuestionFailed))
          => cw'.messages = <<Bot(welcomeMsg), Bot("Tell me about yourself.")>>
     /\ CwAnswerResponse(AnswerFailed \cup AnswerWithoutQuestion)
          => /\ pending' # <<>>
             /\ pending'[Len(pending')].kind = "localQuestion"
             /\ Cardinality({i \in DOMAIN pending' : pending'[i].kind = "nextQuestion"})
                  = Cardinality({i \in DOMAIN pending : pending[i].kind = "nextQuestion"})
             /\ Asks("")
     /\ CwLocalQuestionTimeout
          => \E i \in DOMAIN pending :
               /\ pending[i].kind = "localQuestion"
               /\ IF pending[i].idx + 2 <= Len(questions)
                    THEN Asks(questions[pending[i].idx + 2])
                    ELSE Asks("") /\ pending'[Len(pending')].kind = "summary"]_vars

\* with the backend down, the chat has opened with the welcome message and
\* the first local question, and the answer to it was followed by the
\* second local question
C7_Witness ==
  /\ backend = "down"
  /\ page = "/interview"
  /\ cw.messages = <<Bot(welcomeMsg), Bot("Tell me about yourself."),
                     User("I led a team of five."),
                     Bot("Why are you interested in this role?")>>

(***************************************************************************)
(* Properties of the navigation.                                           *)
(***************************************************************************)
\* C9: whenever the application's own navigation has led from Home to the
\* interview page, the walk has passed, in this order, the role selection,
\* the experience selection, the difficulty selection and a page of the
\* resume step (stage counts the steps passed in that order; the interview
\* page's leading on to the summary is CwSummaryTimeout and CwEndInterview).
C9_InterviewAfterResumeStep ==
  (page = "/interview" /\ stage # OffHome) => stage = 4

(***************************************************************************)
(* Properties of the API client.                                           *)
(***************************************************************************)
\* the session id the response carries for the method
CarriedId(method, response) ==
  IF method \in SetupMethods THEN response.session_id
  ELSE IF method \in LegacyMethods THEN response.data_session_id
  ELSE IF method \in InterviewMethods THEN response.sessionId
  ELSE NoSession

\* the step is the receipt, by one of the six methods that take a session
\* id, of a successful response that carries one, which becomes the id
TakesCarriedId ==
  \E method \in SetupMethods \cup LegacyMethods \cup InterviewMethods,
     response \in ApiResponses :
    /\ response.success
    /\ CarriedId(method, response) # NoSession
    /\ ApiResponse({method}, {response})
    /\ sessionId' = CarriedId(method, response)

\* the session id changes only by a successful response that carries one or
\* through setSessionId, clearSession or deleteSession
ChangesOnlyAsListed ==
  sessionId' # sessionId
    => \/ TakesCarriedId
       \/ ApiSetSessionId
       \/ ApiClearSession
       \/ ApiResponse({"deleteSession"}, ApiResponses)

FailedResponses == {r \in ApiResponses : ~r.success}

\* C10, as stated: the client holds one session id or none; the id changes
\* only as listed; and a failed request, of whatever method, leaves the id
\* unchanged.
C10_SessionIdChangesOnlyAsStated ==
  /\ [](sessionId \in {NoSession} \cup SessionIds \cup RestoredIds)
  /\ [][/\ ChangesOnlyAsListed
        /\ ApiResponse(ApiMethods, FailedResponses) => sessionId' = sessionId]_vars

\* C10, amended: the client holds one session id or none; the id changes
\* only as listed; a failed request of any method but deleteSession leaves
\* the id unchanged; and deleteSession clears the id whatever the response.
C10_SessionIdChangesOnlyAsListed ==
  /\ [](sessionId \in {NoSession} \cup SessionIds \cup RestoredIds)
  /\ [][/\ ChangesOnlyAsListed
        /\ ApiResponse(ApiMethods \ {"deleteSession"}, FailedResponses)
             => sessionId' = sessionId
        /\ ApiResponse({"deleteSession"}, ApiResponses) => sessionId' = NoSession]_vars

\* the client holds an id that only a response can have brought, a request
\* of deleteSession and another of a method that takes an id are in flight
C10_Witness ==
  /\ sessionId \in SessionIds
  /\ Len(pending) = 2
  /\ pending[1].kind = "api" /\ pending[1].arg = "deleteSession"
  /\ pending[2].kind = "api" /\ pending[2].arg = "setRole"
(***************************************************************************)
(* Properties of the login page.                                           *)
(***************************************************************************)
\* the login page awaits the answer to a submission
LoginAwaited ==
  \E i \in DOMAIN pending : pending[i].kind = "login" /\ pending[i].live

\* C14: a login submission with both fields filled ends with loading reset:
\* the page shows loading only while the answer of the backend is awaited,
\* and the answer leads to /role when it reports success and to an error
\* message, on the same page, otherwise.
C14_LoginSubmissionEnds ==
  /\ []((page = "/login" /\ login.loading) => LoginAwaited)
  /\ [][(LoginResponse /\ page = "/login" /\ LoginAwaited)
          => \/ page' = "/role"
             \/ page' = page /\ ~login'.loading /\ login'.error # ""]_vars

\* C15: in sign-up mode a submission with both fields filled, the backend
\* being there to accept it, does not navigate and shows no error: it is
\* put to the backend (the page shows loading) or has ended with the
\* 'Account created successfully' message, the form back in login mode and
\* its fields cleared.
C15_SignupAcceptedShowsSuccess ==
  [][(LoginSubmit /\ version = "current" /\ backend = "up" /\ login.isSignup
        /\ login.filled)
       => /\ page' = page
          /\ login'.error = ""
          /\ \/ login'.loading
             \/ /\ login'.successMessage = AccountCreatedMessage
                /\ ~login'.isSignup
                /\ ~login'.filled]_vars

\* fetch rejected, the body did not parse, or the status is not 2xx
FailedOutcomes ==
  {o \in FetchOutcomes : o.fetch = "rejected" \/ o.json = <<>> \/ ~o.ok}

\* C13: the promise of request() is never rejected; after a network error,
\* an unparsable body or a status that is not 2xx it is fulfilled with an
\* object whose success is false and error true; after a 2xx response whose
\* body parses, and only then, it is fulfilled with the body.
C13_RequestNeverRejects ==
  /\ [](\A i \in DOMAIN returned : returned[i].state = "fulfilled")
  /\ [][/\ ReqSettle(FailedOutcomes)
             => /\ returned'[1].value.success = FALSE
                /\ returned'[1].value.error = TRUE
         /\ \A o \in FetchOutcomes \ FailedOutcomes :
              ReqSettle({o}) => returned'[1].value = o.json[1]]_vars

\* a request has resolved to the failure object after a 2xx response whose
\* body did not parse, while another request is in flight
C13_Witness ==
  /\ returned # NoReturn
  /\ returned[1].state = "fulfilled"
  /\ returned[1].value.message = SyntaxErrorMessage
  /\ returned[1].value.error
  /\ pending # <<>>

(***************************************************************************)
(* Properties of the local progression of the interview.                   *)
(***************************************************************************)
UserCount(msgs) == Cardinality({i \in DOMAIN msgs : msgs[i].sender = "user"})

\* after the welcome message the chat goes question, answer, question, ...
\* and ends with an answer, the questions being the local list's in order
AnswersInTurn(msgs) ==
  /\ Len(msgs) >= 3
  /\ Len(msgs) % 2 = 1
  /\ msgs[1] = Bot(welcomeMsg)
  /\ \A i \in 2..Len(msgs) : i % 2 = 0 => i \div 2 <= Len(questions)
                                          /\ msgs[i].text = questions[i \div 2]
  /\ \A i \in 2..Len(msgs) : msgs[i].sender = IF i % 2 = 0 THEN "bot" ELSE "user"

\* C12: with the backend down, when every answer so far was given in turn
\* (typed or spoken) to the local questions in their order, and the page's
\* index is that of the last question asked, the local progression that follows the k-th answer
\* asks the (k+1)-th question of the local list, and after the sixth answer
\* it asks nothing and sets the navigation to the summary.
C12_EachAnswerAdvancesByOne ==
  [][(backend = "down" /\ page = "/interview" /\ AnswersInTurn(cw.messages)
        /\ cw.currentIndex = UserCount(cw.messages) - 1
        /\ CwLocalQuestionTimeout)
       => LET k == UserCount(cw.messages)
          IN  IF k < Len(questions)
                THEN cw'.messages = Append(cw.messages, Bot(questions[k + 1]))
                ELSE /\ cw'.messages = cw.messages
                     /\ \E i \in DOMAIN pending' : pending'[i].kind = "summary"]_vars

\* no question of the local list is in msgs twice
NoQuestionTwice(msgs) ==
  \A i, j \in DOMAIN msgs :
    (i < j /\ msgs[i] = msgs[j] /\ msgs[i].sender = "bot")
      => \A q \in DOMAIN questions : msgs[i].text # questions[q]

\* no two answers follow each other in msgs
NoAnswerTwiceInARow(msgs) ==
  \A i \in DOMAIN msgs :
    (i < Len(msgs) /\ msgs[i].sender = "user") => msgs[i + 1].sender = "bot"

\* C20: whatever the order of the answers, the responses and the timeouts,
\* two answers given before the next question was appended included, the
\* chat shows no local question twice and no two answers in a row.
C20_AnswersInQuickSuccession ==
  page = "/interview"
    => NoQuestionTwice(cw.messages) /\ NoAnswerTwiceInARow(cw.messages)

IsBot(m) == m.sender = "bot"

\* the bot's messages among msgs, in their order
BotMessages(msgs) == SelectSeq(msgs, IsBot)

\* C16: the bot messages the chat window shows (the welcome message, each
\* question, the completion message) are the bot messages of the context's
\* transcript, in the same order.
C16_BotMessagesAreInTranscript ==
  page = "/interview" => BotMessages(cw.messages) = BotMessages(ctx.chat)

(***************************************************************************)
(* Properties of the scores.                                               *)
(***************************************************************************)
InRange(b) ==
  /\ b.communication \in 0..100 /\ b.confidence \in 0..100 /\ b.technical \in 0..100
  /\ b.pace \in 0..100 /\ b.fillerWords \in 0..100

\* five times the mean the overall score rounds
PartsSum(b) ==
  b.communication + b.technical + b.confidence + b.pace
    + (IF b.fillerWords > 100 THEN 0 ELSE 100 - b.fillerWords)

\* C11: on the summary page, the effect that finds the overall score 0 and a
\* category above 0 sets the overall score to the mean, rounded to the
\* nearest integer (halves up), of communication, technical, confidence,
\* pace and max(0, 100 - fillerWords), and changes nothing else; with every
\* category in [0, 100] the overall score is in [0, 100].
C11_OverallIsRoundedMean ==
  /\ [](InRange(ctx.scoreBreakdown) => ctx.overallScore \in 0..100)
  /\ [][SumEffect
          => /\ ctx.overallScore = 0
             /\ 10 * ctx'.overallScore <= 2 * PartsSum(ctx.scoreBreakdown) + 5
             /\ 2 * PartsSum(ctx.scoreBreakdown) + 5 < 10 * ctx'.overallScore + 10
             /\ ctx' = [ctx EXCEPT !.overallScore = ctx'.overallScore]]_vars

\* the summary shows an overall score above 0 that is a mean rounded, of a
\* breakdown whose filler-word entry is neither 0 nor 100
C11_Witness ==
  /\ page = "/summary"
  /\ ctx.overallScore > 0
  /\ PartsSum(ctx.scoreBreakdown) % 5 # 0
  /\ ctx.scoreBreakdown.fillerWords \in 1..99

\* C17: an answer changes, of the score breakdown, at most communication,
\* confidence and fillerWords; technical and pace are the same after every
\* step of an interview, an answer or any other.
C17_TechnicalAndPaceKept ==
  [][/\ ctx'.scoreBreakdown.technical = ctx.scoreBreakdown.technical
     /\ ctx'.scoreBreakdown.pace = ctx.scoreBreakdown.pace
     /\ ~CwSendText(ScoreInputs) => ctx'.scoreBreakdown = ctx.scoreBreakdown]_vars

\* two answers were given in a session that started with technical 60 and
\* pace 75, and the other entries have changed
C17_Witness ==
  /\ UserCount(ctx.chat) = 2
  /\ ctx.scoreBreakdown.technical = 60
  /\ ctx.scoreBreakdown.pace = 75
  /\ ctx.scoreBreakdown.communication > 0
  /\ ctx.scoreBreakdown.confidence > 0
  /\ ctx.scoreBreakdown.fillerWords > 0

\* C18: of two interviews that differ only in the filler-word ratio of the
\* answers, the one with the lower ratios does not end with the lower
\* overall score on the summary page.
C18_LowerFillerRatioScoresNoLower ==
  [][TwinSumEffect => ctx'.overallScore >= twin'.overallScore]_vars

\* C19: with clarityScore and confidenceScore in [0, 100], fillerRatio in
\* [0, 1] and a breakdown that starts in [0, 100], communication,
\* confidence and fillerWords are integers in [0, 100] after every answer,
\* each the average, rounded to the nearest integer (halves up), of its
\* value before the answer and the answer's clarityScore, confidenceScore
\* and 100 - 100 * fillerRatio.
C19_EntriesAreRoundedAverages ==
  /\ [](InRange(ctx.scoreBreakdown)
          /\ \A a \in AnswerSamples :
               /\ a.clarityScore \in 0..100 /\ a.confidenceScore \in 0..100
               /\ a.fillerPermille \in 0..1000)
  /\ [][\A a \in AnswerSamples :
          CwSendText({a.text})
            => LET b == ctx.scoreBreakdown
                   c == ctx'.scoreBreakdown
               IN  /\ 2 * c.communication <= b.communication + a.clarityScore + 1
                   /\ b.communication + a.clarityScore + 1 < 2 * c.communication + 2
                   /\ 2 * c.confidence <= b.confidence + a.confidenceScore + 1
                   /\ b.confidence + a.confidenceScore + 1 < 2 * c.confidence + 2
                   /\ 20 * c.fillerWords
                        <= 10 * b.fillerWords + 1000 - a.fillerPermille + 10
                   /\ 10 * b.fillerWords + 1000 - a.fillerPermille + 10
                        < 20 * c.fillerWords + 20]_vars

\* after two answers the entries are averages rounded up from a half:
\* communication 33 and clarity 65 have given 49, 49 and 80 have given 65
\* (64.5); fillerWords 50 and the filler ratio 0.125 have given 69 (68.75),
\* 69 and the ratio 0 have given 85 (84.5)
C19_Witness ==
  /\ UserCount(ctx.chat) = 2
  /\ ctx.scoreBreakdown.pace = 1
  /\ ctx.scoreBreakdown.communication = 65
  /\ ctx.scoreBreakdown.fillerWords = 85

(***************************************************************************)
(* Properties of the timers and requests that outlive the ChatWindow.      *)
(***************************************************************************)

\* a step of a timer or of a backend reply of the ChatWindow
LateStep ==
  \/ CwQuestionResponse(QuestionResponses)
  \/ CwAnswerResponse(AnswerResponses)
  \/ CwNextQuestionTimeout
  \/ CwLocalQuestionTimeout
  \/ CwSummaryTimeout

\* such a step appends to the shared transcript or changes the page
LateEffect == LateStep /\ (ctx'.chat # ctx.chat \/ page' # page)

\* C21: when End Interview has navigated to the summary, no timer and no
\* backend reply that was pending at that moment can append a message to the
\* shared transcript or change the page.
C21_NothingAfterEndInterview == [][CwEndInterview => ~(ENABLED LateEffect)']_vars

(***************************************************************************)
(* Properties of the selector pages.                                       *)
(***************************************************************************)

\* C22: on the role, experience and difficulty pages, Continue with nothing
\* selected sets the page's error message and changes nothing else: the
\* context, the requests in flight and the page stay as they are.
C22_ContinueWithNothingSelected ==
  [][(sel.selected = "" /\ SelContinue)
       => /\ page \in {"/role", "/experience", "/difficulty"}
          /\ page = "/role" => sel'.error = "Please select a job role."
          /\ page = "/experience" => sel'.error = "Please choose your experience level."
          /\ page = "/difficulty" => sel'.error = "Please choose a difficulty level."
          /\ sel'.selected = ""
          /\ UNCHANGED <<version, backend, limits, page, stage, storedText, ctx, rs, up,
                         login, cw, pending, sessionId>>]_vars

\* Continue has been pressed on the difficulty page with nothing selected:
\* the message is shown, nothing is in the context and no request is in flight
C22_Witness ==
  /\ page = "/difficulty"
  /\ sel = [selected |-> "", error |-> "Please choose a difficulty level."]
  /\ ctx = CtxInitial
  /\ pending = <<>>

(***************************************************************************)
(* Properties of the methods of the API client that need a session.        *)
(***************************************************************************)

\* the methods the statement lists
ListedMethods ==
  {"uploadResume", "getNextQuestion", "getInterviewProgress", "generateQuestions",
   "submitAnswer", "generateFollowUp", "getEvaluationHistory", "generateFinalReport",
   "downloadReport", "getReportSummary", "getInterviewAnalytics"}

\* the promise of the last call is rejected with a 'No active session' error
NoActiveSessionError ==
  /\ Len(returned) = 1
  /\ returned[1].state = "rejected"
  /\ returned[1].value.message
       \in {"No active session",
            "No active session. Please start interview setup first."}

\* C23: each of the listed methods of the API client, called while the
\* session id is null, fails with a 'No active session' error and sends no
\* request.
C23_NoSessionNoRequest ==
  [][\A method \in ListedMethods :
       (sessionId = NoSession /\ ApiCall({method}))
         => (NoActiveSessionError' /\ pending' = pending)]_vars

\* a call without a session id has failed with the error while the request
\* of another method is in flight, and nothing was sent for it
C23_Witness ==
  /\ sessionId = NoSession
  /\ NoActiveSessionError
  /\ Len(pending) = 1
  /\ pending[1].arg \notin ListedMethods

(***************************************************************************)
(* Properties of the Questions & Answers section of the PDF report.        *)
(***************************************************************************)

IsBotMessage(msg) == msg.sender \in {"bot", "ai"}

IsUserAnswer(msg) == msg.sender \in {"user", "assistant"}

IsPairLine(line) == line # NoPairsNote

\* the lines of the pairs <<q, a>> of positions of chat, numbered from Q1
LinesOf(chat, pairs) ==
  [i \in 1..(2 * Len(pairs)) |->
     IF i % 2 = 1
       THEN "Q" \o ToString((i + 1) \div 2) \o ": " \o chat[pairs[(i + 1) \div 2][1]].text
       ELSE "A: " \o chat[pairs[i \div 2][2]].text]

Largest(S) == CHOOSE x \in S : \A y \in S : y <= x

\* the pairs among the first n messages when each user answer takes the
\* most recent bot message before it that no earlier answer has taken, and
\* is left out when there is none
RECURSIVE TakingUnpaired(_, _)
TakingUnpaired(chat, n) ==
  IF n = 0 THEN <<>>
  ELSE LET before == TakingUnpaired(chat, n - 1)
           taken == {before[i][1] : i \in DOMAIN before}
           free == {q \in 1..(n - 1) : IsBotMessage(chat[q]) /\ q \notin taken}
       IN  IF IsUserAnswer(chat[n]) /\ free # {}
             THEN Append(before, <<Largest(free), n>>)
             ELSE before

\* C24 as stated: the pairs of the report are those of each user answer
\* with the most recent preceding bot message not already paired, numbered
\* Q1, Q2, ... in order; an answer is left out only when no unpaired bot
\* message precedes it.
C24_AnswersTakeUnpairedQuestions ==
  [][SumDownloadReport
       => SelectSeq(doc', IsPairLine)
            = LinesOf(ctx.chat, TakingUnpaired(ctx.chat, Len(ctx.chat)))]_vars

\* the position of the last bot message before position a, 0 when none
QuestionBefore(chat, a) ==
  LET before == {q \in 1..(a - 1) : IsBotMessage(chat[q])}
  IN  IF before = {} THEN 0 ELSE Largest(before)

\* the user answer at position a directly answers the last bot message
\* before it: that message has a text and no other answer lies between
Answers(chat, a) ==
  /\ IsUserAnswer(chat[a])
  /\ QuestionBefore(chat, a) # 0
  /\ chat[QuestionBefore(chat, a)].text # ""
  /\ \A k \in (QuestionBefore(chat, a) + 1)..(a - 1) : ~IsUserAnswer(chat[k])

DirectPairs(chat) ==
  LET positions == [i \in 1..Len(chat) |-> i]
      kept == SelectSeq(positions, LAMBDA a : Answers(chat, a))
  IN  [i \in DOMAIN kept |-> <<QuestionBefore(chat, kept[i]), kept[i]>>]

\* C24, amended: a user answer is paired with the last bot message before
\* it when that message has a text and no other user answer lies between
\* the two; every other user answer is left out, also when an earlier bot
\* message is unpaired.  No bot message is in two pairs and the pairs are
\* numbered Q1, Q2, ... in order.
C24_AnswersTakeTheLastQuestion ==
  [][SumDownloadReport
       => LET pairs == DirectPairs(ctx.chat)
          IN  /\ SelectSeq(doc', IsPairLine) = LinesOf(ctx.chat, pairs)
              /\ \A i, j \in DOMAIN pairs : pairs[i][1] = pairs[j][1] => i = j]_vars

\* the report of two questions followed by two answers has one pair, the
\* second question with the first answer; the second answer is left out
\* although the first question is unpaired
C24_Witness ==
  /\ ctx.chat = <<Bot("Tell me about yourself."), Bot("What are your strengths?"),
                  User("I led a team of five."), User("Yes.")>>
  /\ doc = <<"Q1: What are your strengths?", "A: I led a team of five.">>
====
